---- MODULE Spec2Model ----
(***************************************************************************)
(* Time-domain EM source waveforms                                         *)
(* (SimPEG/electromagnetics/time_domain/sources.py).                       *)
(*                                                                         *)
(* A Python value is a record [ty, v]: ty is the Python type the code's    *)
(* isinstance tests look at, v the payload.  Times (off_time, epsilon,     *)
(* peak_time, ramp entries, the argument of eval) are counted in units of  *)
(* 1e-9 s, so the default epsilon=1e-9 is 1 and off_time=0.0 is 0.         *)
(* An instance is a function from the private attribute names to values,   *)
(* Unset where no assignment to the attribute has been executed.  A method *)
(* yields [exc, self] (exc = NoExc on normal return) and eval yields       *)
(* [exc, val]; an exception raised by a callee propagates unchanged.       *)
(***************************************************************************)
EXTENDS Integers, Sequences, FiniteSets, TLC

VARIABLES cls, args, self, exc, time, ret, pc

\* a source and the simulation it is queried against
VARIABLES source, simulation, cache, solverCalls, call, result, handles

wfVars == <<cls, args, self, exc, time, ret, pc>>
srcVars == <<source, simulation, cache, solverCalls, call, result, handles>>
vars == <<cls, args, self, exc, time, ret, pc,
          source, simulation, cache, solverCalls, call, result, handles>>

(* ---------------------------- bounds ----------------------------------- *)
\* eval is called at the times -MaxNegTime .. MaxTime
MaxTime == 4
MaxNegTime == 2
\* time parameters (off_time, peak_time, ramp entries) range over 0 .. MaxParam
MaxParam == 3

(* ------------------------- Python values -------------------------------- *)
NoExc == "none"

PyFloat(n) == [ty |-> "float", v |-> n]
PyInt(n) == [ty |-> "int", v |-> n]
PyBool(b) == [ty |-> "bool", v |-> IF b THEN 1 ELSE 0]
PyStr == [ty |-> "str", v |-> 0]
PyNone == [ty |-> "NoneType", v |-> 0]
PyFunc == [ty |-> "function", v |-> 0]
PyList(s) == [ty |-> "list", v |-> s]
NdArray(s) == [ty |-> "ndarray", v |-> s]
Unset == [ty |-> "unset", v |-> 0]

\* isinstance(value, int): bool is a subclass of int
IsInt(x) == x.ty \in {"int", "bool"}
IsFloat(x) == x.ty = "float"
IsBool(x) == x.ty = "bool"
IsCallable(x) == x.ty = "function"

Attrs == {"_has_initial_fields", "_off_time", "_epsilon", "_waveform_function",
          "_peak_time", "_ramp_on_rate", "_ramp_on", "_ramp_off"}

\* the instance object.__new__ hands to __init__: no attribute assigned yet
NewObject == [a \in Attrs |-> Unset]

Return(obj) == [exc |-> NoExc, self |-> obj]
Raise(e, obj) == [exc |-> e, self |-> obj]

NoVal == [k |-> "none", n |-> 0, d |-> 1, a |-> 0]
Value(x) == [exc |-> NoExc, val |-> x]
RaiseV(e) == [exc |-> e, val |-> NoVal]

\* a property getter "return self._name": AttributeError when never assigned
GetAttr(obj, a) == IF obj[a] = Unset THEN RaiseV("AttributeError") ELSE Value(obj[a])

(* ------------------------- BaseWaveform --------------------------------- *)
has_initial_fields_setter(obj, value) ==
    IF ~IsBool(value)
    THEN Raise("ValueError", obj)
    ELSE Return([obj EXCEPT !["_has_initial_fields"] = value])

\* line 60 assigns the name off_time, which is bound neither in the setter
\* nor in the module: NameError on the only path that does not raise ValueError
off_time_setter(obj, value) ==
    LET value1 == IF IsInt(value) THEN PyFloat(value.v) ELSE value
    IN  IF ~IsFloat(value1)
        THEN Raise("ValueError", obj)
        ELSE Raise("NameError", obj)

\* validates and returns: no assignment to self._epsilon
epsilon_setter(obj, value) ==
    IF ~IsFloat(value)
    THEN Raise("ValueError", obj)
    ELSE IF value.v < 0
         THEN Raise("ValueError", obj)
         ELSE Return(obj)

\* every kwargs key the model passes is a named parameter of __init__, so the
\* trailing setKwargs(self, **kwargs) receives an empty dict
BaseWaveform_init(obj, has_initial_fields, off_time, epsilon) ==
    LET r1 == has_initial_fields_setter(obj, has_initial_fields)
        r2 == off_time_setter(r1.self, off_time)
        r3 == epsilon_setter(r2.self, epsilon)
    IN  IF r1.exc # NoExc THEN r1
        ELSE IF r2.exc # NoExc THEN r2
        ELSE r3


\* BaseWaveform.__init__ defaults (line 24), in units of 1e-9 s
DefaultEpsilon == 1
DefaultOffTime == 0

\* **kwargs as the model passes them: a key is Absent or carries a value
Absent == [ty |-> "absent", v |-> 0]
NoKwargs == [epsilon |-> Absent, has_initial_fields |-> Absent]
KwOr(kwargs, key, default) == IF kwargs[key] = Absent THEN default ELSE kwargs[key]

(* ------------------------- StepOffWaveform ------------------------------ *)
\* **kwargs is accepted and dropped: epsilon is always the default
StepOffWaveform_init(obj, off_time, kwargs) ==
    BaseWaveform_init(obj, PyBool(TRUE), off_time, PyFloat(DefaultEpsilon))

(* ------------------------- RampOffWaveform ------------------------------ *)
\* has_initial_fields=True next to a has_initial_fields key in **kwargs is
\* "got multiple values for keyword argument": TypeError at the call
RampOffWaveform_init(obj, off_time, kwargs) ==
    IF kwargs.has_initial_fields # Absent
    THEN Raise("TypeError", obj)
    ELSE BaseWaveform_init(obj, PyBool(TRUE), off_time,
                           KwOr(kwargs, "epsilon", PyFloat(DefaultEpsilon)))

(* --------------------------- RawWaveform -------------------------------- *)
\* validates and returns: no assignment to self._waveform_function
waveform_function_setter(obj, value) ==
    IF ~IsCallable(value)
    THEN Raise("ValueError", obj)
    ELSE Return(obj)

RawWaveform_init(obj, off_time, waveform_function, kwargs) ==
    LET r1 == BaseWaveform_init(obj,
                                KwOr(kwargs, "has_initial_fields", PyBool(FALSE)),
                                off_time,
                                KwOr(kwargs, "epsilon", PyFloat(DefaultEpsilon)))
    IN  IF r1.exc # NoExc THEN r1
        ELSE waveform_function_setter(r1.self, waveform_function)

(* --------------------------- VTEMWaveform ------------------------------- *)
\* "value > self.off_time" reads the off_time property (self._off_time);
\* line 190 assigns the unbound name peak_time: NameError
peak_time_setter(obj, value) ==
    IF ~IsFloat(value)
    THEN Raise("ValueError", obj)
    ELSE IF obj["_off_time"] = Unset
         THEN Raise("AttributeError", obj)
         ELSE IF value.v > obj["_off_time"].v
              THEN Raise("ValueError", obj)
              ELSE Raise("NameError", obj)

\* validates and returns: no assignment to self._ramp_on_rate
ramp_on_rate_setter(obj, value) ==
    LET value1 == IF IsInt(value) THEN PyFloat(value.v) ELSE value
    IN  IF ~IsFloat(value1)
        THEN Raise("ValueError", obj)
        ELSE Return(obj)

VTEMWaveform_init(obj, off_time, peak_time, ramp_on_rate, kwargs) ==
    IF kwargs.has_initial_fields # Absent
    THEN Raise("TypeError", obj)
    ELSE LET r1 == BaseWaveform_init(obj, PyBool(FALSE), off_time,
                                     KwOr(kwargs, "epsilon", PyFloat(DefaultEpsilon)))
             r2 == peak_time_setter(r1.self, peak_time)
             r3 == ramp_on_rate_setter(r2.self, ramp_on_rate)
         IN  IF r1.exc # NoExc THEN r1
             ELSE IF r2.exc # NoExc THEN r2
             ELSE r3

(* ------------------------- TrapezoidWaveform ---------------------------- *)
\* ramp_on.setter and ramp_off.setter have the same body; attr is the
\* attribute each assigns
ramp_setter(obj, attr, value) ==
    LET value1 == IF value.ty \in {"list", "tuple"} THEN NdArray(value.v) ELSE value
    IN  IF value1.ty # "ndarray"
        THEN Raise("ValueError", obj)
        ELSE IF Len(value1.v) # 2
             THEN Raise("ValueError", obj)
             ELSE Return([obj EXCEPT ![attr] = value1])

ramp_on_setter(obj, value) == ramp_setter(obj, "_ramp_on", value)
ramp_off_setter(obj, value) == ramp_setter(obj, "_ramp_off", value)

\* self.ramp_off[-1] is a numpy float64, which isinstance(..., float) accepts
TrapezoidWaveform_init(obj, ramp_on, ramp_off, off_time) ==
    LET r1 == BaseWaveform_init(obj, PyBool(FALSE), PyFloat(DefaultOffTime),
                                PyFloat(DefaultEpsilon))
        r2 == ramp_on_setter(r1.self, ramp_on)
        r3 == ramp_off_setter(r2.self, ramp_off)
        r4 == off_time_setter(r3.self,
                              IF off_time # PyNone THEN off_time
                              ELSE PyFloat(r3.self["_ramp_off"].v[2]))
    IN  IF r1.exc # NoExc THEN r1
        ELSE IF r2.exc # NoExc THEN r2
        ELSE IF r3.exc # NoExc THEN r3
        ELSE r4

(* ------------------------- TriangularWaveform --------------------------- *)
\* the class body (line 335) passes the unbound name peak_time to
\* deprecate_property: the class statement raises NameError and binds no class
TriangularWaveform_class == "NameError"

\* line 321 reads self.peakTime before anything is assigned
TriangularWaveform_init(obj, off_time, peak_time) ==
    IF TriangularWaveform_class # NoExc
    THEN Raise(TriangularWaveform_class, obj)
    ELSE Raise("AttributeError", obj)

(* ------------- QuarterSineRampOnWaveform / HalfSineWaveform ------------- *)
\* both pass has_initial_fields=False to TrapezoidWaveform.__init__, which has
\* no such parameter and no **kwargs: TypeError before any statement of it
QuarterSineRampOnWaveform_init(obj, ramp_on, ramp_off, kwargs) ==
    Raise("TypeError", obj)

HalfSineWaveform_init(obj, ramp_on, ramp_off, kwargs) ==
    Raise("TypeError", obj)


(* --------------------------- amplitudes --------------------------------- *)
\* eval returns a number.  num: the rational n/d in lowest terms; sin, cos:
\* sin(pi/2 * n/d), cos(pi/2 * n/d); expramp: (1 - e^(-n/d)) / (1 - e^(-a));
\* call: whatever the injected function returns at time n; nan: numpy's 0/0
\* and inf*0.
Abs(x) == IF x < 0 THEN 0 - x ELSE x

RECURSIVE GCD(_, _)
GCD(a, b) == IF b = 0 THEN a ELSE GCD(b, a % b)

Num(n, d) ==
    LET g == GCD(Abs(n), Abs(d))
        sg == IF d < 0 THEN 0 - 1 ELSE 1
    IN  [k |-> "num", n |-> sg * (n \div g), d |-> sg * (d \div g), a |-> 0]

Amp0 == Num(0, 1)
Amp1 == Num(1, 1)
NaN == [k |-> "nan", n |-> 0, d |-> 1, a |-> 0]

\* numpy: sin(0) = 0.0, sin(pi/2) = 1.0
Sin(n, d) == IF n = 0 THEN Amp0
             ELSE IF n = d THEN Amp1
             ELSE [k |-> "sin", n |-> Num(n, d).n, d |-> Num(n, d).d, a |-> 0]

\* numpy: cos(0) = 1.0, cos(pi/2) = 6.123e-17 (kept as cos 1/1, not Amp0)
Cos(n, d) == IF n = 0 THEN Amp1
             ELSE [k |-> "cos", n |-> Num(n, d).n, d |-> Num(n, d).d, a |-> 0]

ExpRamp(n, d, a) ==
    IF a = 0 THEN NaN
    ELSE IF n = 0 THEN Amp0
    ELSE IF n = a * d THEN Amp1
    ELSE [k |-> "expramp", n |-> Num(n, d).n, d |-> Num(n, d).d, a |-> a]

Call(t) == [k |-> "call", n |-> t, d |-> 1, a |-> 0]

(* ------------------------------ eval ------------------------------------ *)
\* an attribute read that raises ends eval with that exception: each
\* "IF x.exc # NoExc THEN x" below is the read of one property
BaseWaveform_eval(obj, t) == RaiseV("NotImplementedError")

StepOffWaveform_eval(obj, t) ==
    LET epsilon == GetAttr(obj, "_epsilon")
    IN  IF epsilon.exc # NoExc THEN epsilon
        ELSE IF Abs(t - 0) < epsilon.val.v THEN Value(Amp1)
        ELSE Value(Amp0)

\* -1.0 / self.off_time divides Python floats: ZeroDivisionError at 0.0
RampOffWaveform_eval(obj, t) ==
    LET epsilon == GetAttr(obj, "_epsilon")
        off_time == GetAttr(obj, "_off_time")
    IN  IF epsilon.exc # NoExc THEN epsilon
        ELSE IF Abs(t - 0) < epsilon.val.v THEN Value(Amp1)
        ELSE IF off_time.exc # NoExc THEN off_time
        ELSE IF t < off_time.val.v
             THEN IF off_time.val.v = 0 THEN RaiseV("ZeroDivisionError")
                  ELSE Value(Num(0 - (t - off_time.val.v), off_time.val.v))
        ELSE Value(Amp0)

RawWaveform_eval(obj, t) ==
    LET waveform_function == GetAttr(obj, "_waveform_function")
    IN  IF waveform_function.exc # NoExc THEN waveform_function
        ELSE Value(Call(t))

\* rate * time / peak_time divides Python floats; the quotient of the two
\* numpy exponentials is nan at 0/0
VTEMWaveform_eval(obj, t) ==
    LET peak_time == GetAttr(obj, "_peak_time")
        ramp_on_rate == GetAttr(obj, "_ramp_on_rate")
        off_time == GetAttr(obj, "_off_time")
    IN  IF peak_time.exc # NoExc THEN peak_time
        ELSE IF t <= peak_time.val.v
             THEN IF ramp_on_rate.exc # NoExc THEN ramp_on_rate
                  ELSE IF peak_time.val.v = 0 THEN RaiseV("ZeroDivisionError")
                  ELSE Value(ExpRamp(ramp_on_rate.val.v * t, peak_time.val.v,
                                     ramp_on_rate.val.v))
        ELSE IF off_time.exc # NoExc THEN off_time
        ELSE IF t < off_time.val.v /\ t > peak_time.val.v
             THEN Value(Num(0 - (t - off_time.val.v),
                            off_time.val.v - peak_time.val.v))
        ELSE Value(Amp0)

\* the ramp entries are numpy float64: 1.0 / 0.0 is inf and inf * 0.0 is nan
LinearRampOn(t, on0, on1) ==
    IF on1 = on0 THEN NaN ELSE Num(t - on0, on1 - on0)

LinearRampOff(t, off0, off1) ==
    IF off1 = off0 THEN NaN ELSE Num((off1 - off0) - (t - off0), off1 - off0)

SineRampOn(t, on0, on1) ==
    IF on1 = on0 THEN NaN ELSE Sin(t - on0, on1 - on0)

CosineRampOff(t, off0, off1) ==
    IF off1 = off0 THEN NaN ELSE Cos(t - off0, off1 - off0)

TrapezoidWaveform_eval(obj, t) ==
    LET ramp_on == GetAttr(obj, "_ramp_on")
        ramp_off == GetAttr(obj, "_ramp_off")
    IN  IF ramp_on.exc # NoExc THEN ramp_on
        ELSE IF t < ramp_on.val.v[1] THEN Value(Amp0)
        ELSE IF t >= ramp_on.val.v[1] /\ t <= ramp_on.val.v[2]
             THEN Value(LinearRampOn(t, ramp_on.val.v[1], ramp_on.val.v[2]))
        ELSE IF ramp_off.exc # NoExc THEN ramp_off
        ELSE IF t > ramp_on.val.v[2] /\ t < ramp_off.val.v[1] THEN Value(Amp1)
        ELSE IF t >= ramp_off.val.v[1] /\ t <= ramp_off.val.v[2]
             THEN Value(LinearRampOff(t, ramp_off.val.v[1], ramp_off.val.v[2]))
        ELSE Value(Amp0)

QuarterSineRampOnWaveform_eval(obj, t) ==
    LET ramp_on == GetAttr(obj, "_ramp_on")
        ramp_off == GetAttr(obj, "_ramp_off")
    IN  IF ramp_on.exc # NoExc THEN ramp_on
        ELSE IF t < ramp_on.val.v[1] THEN Value(Amp0)
        ELSE IF t >= ramp_on.val.v[1] /\ t <= ramp_on.val.v[2]
             THEN Value(SineRampOn(t, ramp_on.val.v[1], ramp_on.val.v[2]))
        ELSE IF ramp_off.exc # NoExc THEN ramp_off
        ELSE IF t > ramp_on.val.v[2] /\ t < ramp_off.val.v[1] THEN Value(Amp1)
        ELSE IF t >= ramp_off.val.v[1] /\ t <= ramp_off.val.v[2]
             THEN Value(LinearRampOff(t, ramp_off.val.v[1], ramp_off.val.v[2]))
        ELSE Value(Amp0)

HalfSineWaveform_eval(obj, t) ==
    LET ramp_on == GetAttr(obj, "_ramp_on")
        ramp_off == GetAttr(obj, "_ramp_off")
    IN  IF ramp_on.exc # NoExc THEN ramp_on
        ELSE IF t < ramp_on.val.v[1] THEN Value(Amp0)
        ELSE IF t >= ramp_on.val.v[1] /\ t <= ramp_on.val.v[2]
             THEN Value(SineRampOn(t, ramp_on.val.v[1], ramp_on.val.v[2]))
        ELSE IF ramp_off.exc # NoExc THEN ramp_off
        ELSE IF t > ramp_on.val.v[2] /\ t < ramp_off.val.v[1] THEN Value(Amp1)
        ELSE IF t >= ramp_off.val.v[1] /\ t <= ramp_off.val.v[2]
             THEN Value(CosineRampOff(t, ramp_off.val.v[1], ramp_off.val.v[2]))
        ELSE Value(Amp0)

(* --------------------------- dispatch ----------------------------------- *)
Classes == {"StepOffWaveform", "RampOffWaveform", "RawWaveform", "VTEMWaveform",
            "TrapezoidWaveform", "TriangularWaveform",
            "QuarterSineRampOnWaveform", "HalfSineWaveform"}

\* method resolution of w.eval: Triangular inherits Trapezoid's
eval(c, obj, t) ==
    CASE c = "StepOffWaveform" -> StepOffWaveform_eval(obj, t)
      [] c = "RampOffWaveform" -> RampOffWaveform_eval(obj, t)
      [] c = "RawWaveform" -> RawWaveform_eval(obj, t)
      [] c = "VTEMWaveform" -> VTEMWaveform_eval(obj, t)
      [] c = "TrapezoidWaveform" -> TrapezoidWaveform_eval(obj, t)
      [] c = "TriangularWaveform" -> TrapezoidWaveform_eval(obj, t)
      [] c = "QuarterSineRampOnWaveform" -> QuarterSineRampOnWaveform_eval(obj, t)
      [] c = "HalfSineWaveform" -> HalfSineWaveform_eval(obj, t)
      [] OTHER -> BaseWaveform_eval(obj, t)

(* ------------------------ argument domains ------------------------------ *)
Params == 0 .. MaxParam
Times == (0 - MaxNegTime) .. MaxTime

OffTimeArgs == {PyFloat(n) : n \in Params} \cup {PyInt(2), PyStr}
PeakTimeArgs == {PyFloat(n) : n \in Params} \cup {PyInt(1)}
RampOnRateArgs == {PyFloat(3), PyFloat(0), PyInt(3), PyStr}
EpsilonArgs == {Absent, PyFloat(1), PyFloat(2), PyFloat(0 - 1), PyInt(1)}
HasInitialFieldsArgs == {Absent, PyBool(TRUE), PyInt(1)}
FunctionArgs == {PyFunc, PyNone}
Intervals == {<<a, b>> : a \in Params, b \in Params}
RampArgs == {PyList(i) : i \in {j \in Intervals : j[1] <= j[2]}}
            \cup {NdArray(<<2, 3>>), PyList(<<0, 1, 2>>), PyFloat(1)}
KwargsArgs == [epsilon : EpsilonArgs, has_initial_fields : HasInitialFieldsArgs]

NoArgs == [off_time |-> Absent, peak_time |-> Absent, ramp_on_rate |-> Absent,
           ramp_on |-> Absent, ramp_off |-> Absent,
           waveform_function |-> Absent, kwargs |-> NoKwargs]

NoRet == [exc |-> NoExc, val |-> NoVal]

(* ------------------- vectors, operators, fields ------------------------- *)
\* Every discrete space (nodes, edges, faces, cells, model) has Dim unknowns.
\* A vector is a tuple of Dim integers, an operator a tuple of Dim rows.
Dim == 3
Idx == 1 .. Dim

RECURSIVE DotUpTo(_, _, _)
DotUpTo(x, y, n) == IF n = 0 THEN 0 ELSE x[n] * y[n] + DotUpTo(x, y, n - 1)

Dot(x, y) == DotUpTo(x, y, Dim)
MatVec(M, x) == [i \in Idx |-> Dot(M[i], x)]
Transpose(M) == [i \in Idx |-> [j \in Idx |-> M[j][i]]]
MatMul(A, B) == [i \in Idx |-> [j \in Idx |-> Dot(A[i], Transpose(B)[j])]]
MatScale(c, A) == [i \in Idx |-> [j \in Idx |-> c * A[i][j]]]
ZeroVec == [i \in Idx |-> 0]

\* the signed cofactor of M at (i, j), its determinant and adjugate (Dim = 3)
Cyc(i) == (i % Dim) + 1
Cofactor(M, i, j) ==
    M[Cyc(i)][Cyc(j)] * M[Cyc(Cyc(i))][Cyc(Cyc(j))]
        - M[Cyc(i)][Cyc(Cyc(j))] * M[Cyc(Cyc(i))][Cyc(j)]
Det(M) == M[1][1] * Cofactor(M, 1, 1) + M[1][2] * Cofactor(M, 1, 2)
              + M[1][3] * Cofactor(M, 1, 3)
Adj(M) == [i \in Idx |-> [j \in Idx |-> Cofactor(M, j, i)]]

\* a sparse operator with rational entries: the integer matrix m over the
\* common denominator d
Op(M) == [m |-> M, d |-> 1]
OpT(A) == [m |-> Transpose(A.m), d |-> A.d]
OpMul(A, B) == [m |-> MatMul(A.m, B.m), d |-> A.d * B.d]
OpSub(A, B) ==
    [m |-> [i \in Idx |-> [j \in Idx |-> A.m[i][j] * B.d - B.m[i][j] * A.d]],
     d |-> A.d * B.d]
OpNeg(A) == [m |-> MatScale(0 - 1, A.m), d |-> A.d]
OpInv(A) == [m |-> MatScale(A.d, Adj(A.m)), d |-> Det(A.m)]
\* sdiag(n / d), entry by entry
OpDiag(n, d) ==
    [m |-> [i \in Idx |-> [j \in Idx |->
               IF i = j THEN n[i] * d[Cyc(i)] * d[Cyc(Cyc(i))] ELSE 0]],
     d |-> d[1] * d[2] * d[3]]
Ones == [i \in Idx |-> 1]

RECURSIVE GCDUpTo(_, _, _)
GCDUpTo(g, x, n) == IF n = 0 THEN g ELSE GCDUpTo(GCD(g, Abs(x[n])), x, n - 1)

\* what a source query returns: the Zero() sentinel, a dense vector v/d in
\* lowest terms, or None when the method falls off its end
Zero == [k |-> "Zero", v |-> ZeroVec, d |-> 1]
PyNoneField == [k |-> "None", v |-> ZeroVec, d |-> 1]

Vec(x, d) ==
    LET g == GCDUpTo(Abs(d), x, Dim)
        sg == IF d < 0 THEN 0 - 1 ELSE 1
    IN  [k |-> "vec", v |-> [i \in Idx |-> sg * (x[i] \div g)], d |-> sg * (d \div g)]

\* arithmetic of the Zero sentinel with dense values: Zero * x = Zero,
\* Zero + x = x, x - Zero = x, Zero - x = -x
FMat(A, x) == IF x.k = "Zero" THEN Zero ELSE Vec(MatVec(A.m, x.v), A.d * x.d)
FScale(n, d, x) == IF x.k = "Zero" THEN Zero ELSE Vec([i \in Idx |-> n * x.v[i]], d * x.d)
FNeg(x) == FScale(0 - 1, 1, x)
FAdd(x, y) ==
    IF x.k = "Zero" THEN y
    ELSE IF y.k = "Zero" THEN x
    ELSE Vec([i \in Idx |-> x.v[i] * y.d + y.v[i] * x.d], x.d * y.d)
FSub(x, y) == FAdd(x, FNeg(y))
\* x * waveform.eval(time), the amplitude a rational n/d
FAmp(x, amp) == FScale(amp.n, amp.d, x)
\* <x, y> as the rational n / d
FDot(x, y) == Num(Dot(x.v, y.v), x.d * y.d)

\* a method's outcome: the exception raised (NoExc on return), the value
\* returned, and the source's caches and the solver-call count it leaves
\* behind; st is the cache and count the method starts from
Out(st, x) ==
    [exc |-> NoExc, val |-> x, cache |-> st.cache, solves |-> st.solves, log |-> st.log]
Err(st, e) ==
    [exc |-> e, val |-> PyNoneField, cache |-> st.cache, solves |-> st.solves,
     log |-> st.log]
\* the same outcome with another returned value; an exception stays as it is
Then(r, x) == IF r.exc = NoExc THEN [r EXCEPT !.val = x] ELSE r
\* the one element of a singleton: { e(x) : x \in {a} } computes a once and
\* names its value x, like a local variable of the method
Only(S) == CHOOSE e \in S : TRUE

\* What a method does with the factorization handles it gets from
\* simulation.solver is kept in log, in the order it happens; a handle is
\* named by its rank among the factorizations the solver has handed out.
\* Ainv = simulation.solver(A): one more factorization handed out
Factored(A) ==
    [A EXCEPT !.solves = A.solves + 1,
              !.log = Append(A.log, [op |-> "factor", h |-> A.solves + 1])]
\* Ainv * rhs
Solved(r, h) == [r EXCEPT !.log = Append(r.log, [op |-> "solve", h |-> h])]
\* Ainv.clean()
Cleaned(r, h) == [r EXCEPT !.log = Append(r.log, [op |-> "clean", h |-> h])]

(* ------------------- the mesh and the simulation ------------------------ *)
\* The mesh, its operators and the simulation's physical-property matrices are
\* collaborators of the sources; they are given here as small concrete
\* operators so that the sources' algebra can be evaluated exactly.
MeshIds == {"tensor", "cyl"}

Mesh(id) ==
    IF id = "tensor"
    THEN [_meshType |-> "TENSOR", isSymmetric |-> FALSE,
          edgeCurl |-> Op(<< <<1, 0, 0>>, <<0 - 1, 1, 0>>, <<0, 0 - 1, 2>> >>),
          faceDiv |-> Op(<< <<1, 0, 0>>, <<0 - 1, 1, 0>>, <<0, 0 - 1, 1>> >>),
          nodalGrad |-> Op(<< <<0 - 1, 1, 0>>, <<0, 0 - 1, 1>>, <<0, 0, 1>> >>),
          vol |-> <<1, 2, 1>>,
          gridEx |-> <<1>>, gridEy |-> <<2>>, gridEz |-> <<3>>,
          gridFx |-> <<4>>, gridFy |-> <<5>>, gridFz |-> <<6>>]
    ELSE [_meshType |-> "CYL", isSymmetric |-> TRUE,
          edgeCurl |-> Op(<< <<1, 0 - 1, 0>>, <<0, 1, 0 - 1>>, <<1, 0, 2>> >>),
          faceDiv |-> Op(<< <<2, 0, 0>>, <<0 - 1, 1, 0>>, <<0, 0 - 1, 1>> >>),
          nodalGrad |-> Op(<< <<1, 0, 0>>, <<0 - 1, 1, 0>>, <<0, 0 - 1, 1>> >>),
          vol |-> <<1, 1, 2>>,
          gridEx |-> <<>>, gridEy |-> <<7, 8, 9>>, gridEz |-> <<>>,
          gridFx |-> <<>>, gridFy |-> <<10, 11, 12>>, gridFz |-> <<>>]

\* mesh.getFaceInnerProduct(n / d) and its invMat=True form, for a scalar
\* property: the property times the cell volumes on the diagonal
getFaceInnerProduct(mesh, n, d, invMat) ==
    IF invMat
    THEN OpDiag([i \in Idx |-> d], [i \in Idx |-> n * mesh.vol[i]])
    ELSE OpDiag([i \in Idx |-> n * mesh.vol[i]], [i \in Idx |-> d])

\* sdiag(mesh.vol)
sdiagVol(mesh) == OpDiag(mesh.vol, Ones)

\* the simulation's property matrices, from its cell-wise permeability mu and
\* resistivity rho
MfMuiI(sim) == OpDiag(sim.mu, Mesh(sim.mesh).vol)
MeMuI(sim) == OpDiag(Ones, [i \in Idx |-> Mesh(sim.mesh).vol[i] * sim.mu[i]])
MfRhoI(sim) == OpDiag(Ones, [i \in Idx |-> Mesh(sim.mesh).vol[i] * sim.rho[i]])
\* sdiag(1.0 / vol * simulation.mui)
sdiagMuiOverVol(sim) ==
    OpDiag(Ones, [i \in Idx |-> Mesh(sim.mesh).vol[i] * sim.mu[i]])

\* d(MfRhoI * u)/d(rho) applied to v; the matrix is diagonal, so the adjoint
\* applies the same matrix
MfRhoIDeriv(sim, u, v, adjoint) ==
    FMat(OpDiag([i \in Idx |-> 0 - u.v[i]],
                [i \in Idx |-> u.d * Mesh(sim.mesh).vol[i] * sim.rho[i] * sim.rho[i]]),
         v)

\* d(MeSigma * u)/d(sigma) applied to v
MeSigmaDeriv(sim, u, v, adjoint) ==
    FMat(OpDiag([i \in Idx |-> u.v[i] * Mesh(sim.mesh).vol[i]],
                [i \in Idx |-> u.d]),
         v)

\* simulation.Adcinv: the factored steady-state operator the simulation
\* supplies; symmetric
Adcinv(sim) ==
    IF sim.formulation = "EB"
    THEN Op(<< <<2, 1, 0>>, <<1, 3, 1>>, <<0, 1, 2>> >>)
    ELSE [m |-> << <<3, 0 - 1, 0>>, <<0 - 1, 2, 1>>, <<0, 1, 4>> >>, d |-> 2]

\* simulation.getAdcDeriv(u, v, adjoint): the derivative of Adc * u with
\* respect to the model, applied to v, or its transpose
getAdcDeriv(sim, u, v, adjoint) ==
    LET Grad == Mesh(sim.mesh).nodalGrad
        Div == OpMul(sdiagVol(Mesh(sim.mesh)), Mesh(sim.mesh).faceDiv)
    IN  IF sim.formulation = "EB"
        THEN IF adjoint
             THEN MeSigmaDeriv(sim, FMat(Grad, u), FMat(Grad, v), TRUE)
             ELSE FMat(OpT(Grad), MeSigmaDeriv(sim, FMat(Grad, u), v, FALSE))
        ELSE IF adjoint
             THEN MfRhoIDeriv(sim, FMat(OpT(Div), u), FMat(OpT(Div), v), TRUE)
             ELSE FMat(Div, MfRhoIDeriv(sim, FMat(OpT(Div), u), v, FALSE))

\* simulation.solver(A): a factorization handle; handle * rhs solves A x = rhs
solver(A) == OpInv(A)

\* the closed-form vector potential of a dipole or loop (component c at grid
\* location p): proportional to the permeability and to the moment (dipole) or
\* current and radius (loop)
vector_potential(strength, mu, p, c, coordinates) ==
    strength * mu * (p + c + (IF coordinates = "cylindrical" THEN 1 ELSE 0))

\* segmented_line_current_source_term(mesh, location): the wire path
\* integrated along the mesh edges
segmented_line_current_source_term(mesh, location) ==
    IF mesh._meshType = "TENSOR" THEN Vec(<<1, 0, 0 - 1>>, 1) ELSE Vec(<<0, 2, 0 - 2>>, 1)

\* line_through_faces(mesh, location, normalize_by_area=True)
line_through_faces(mesh, location) ==
    IF mesh._meshType = "TENSOR" THEN Vec(<<1, 1, 0>>, 1) ELSE Vec(<<0 - 1, 0, 3>>, 1)

(* --------------------- source state before any call --------------------- *)
NoObj == [strength |-> 0, mu |-> 0]
NoOp == [m |-> <<>>, d |-> 0]
NoSource == [kind |-> "none"]
NoSimulation == [formulation |-> "none"]
\* the attributes a source creates lazily; None until first use
NoCache ==
    [_dipole |-> NoObj, _loop |-> NoObj, _hp |-> PyNoneField,
     _MfMuip |-> NoOp, _MfMuipI |-> NoOp,
     _Mejs |-> PyNoneField, _Mfjs |-> PyNoneField]
NoCall == [name |-> "none", time |-> 0, v |-> PyNoneField, adjoint |-> FALSE,
           f |-> PyNoneField]
NoResult == [exc |-> NoExc, val |-> PyNoneField]

SrcIdle ==
    /\ source = NoSource
    /\ simulation = NoSimulation
    /\ cache = NoCache
    /\ solverCalls = 0
    /\ call = NoCall
    /\ result = NoResult
    /\ handles = <<>>

(* ------------------------------ sources --------------------------------- *)
\* A source src carries its waveform (the has_initial_fields flag and the
\* amplitude it evaluates to) and its geometry parameters.
waveform_eval(w, t) ==
    IF w.shape = "step"
    THEN IF t = 0 THEN Amp1 ELSE Amp0
    ELSE IF t >= 2 THEN Amp0 ELSE Num(2 - t, 2)

\* BaseTDEMSrc
BaseTDEMSrc_bInitial(src, sim, st) == Out(st, Zero)
BaseTDEMSrc_bInitialDeriv(src, sim, st, v, adjoint) == Out(st, Zero)
BaseTDEMSrc_eInitial(src, sim, st) == Out(st, Zero)
BaseTDEMSrc_eInitialDeriv(src, sim, st, v, adjoint) == Out(st, Zero)
BaseTDEMSrc_hInitial(src, sim, st) == Out(st, Zero)
BaseTDEMSrc_hInitialDeriv(src, sim, st, v, adjoint) == Out(st, Zero)
BaseTDEMSrc_jInitial(src, sim, st) == Out(st, Zero)
BaseTDEMSrc_jInitialDeriv(src, sim, st, v, adjoint) == Out(st, Zero)
BaseTDEMSrc_s_m(src, sim, st, t) == Out(st, Zero)
\* s_e materialized as a dense vector of zeros
BaseTDEMSrc_s_e_dense(src, sim, st, t) == Out(st, Vec(ZeroVec, 1))
BaseTDEMSrc_s_e(src, sim, st, t) == Out(st, Zero)
BaseTDEMSrc_s_mDeriv(src, sim, st, t, v, adjoint) == Out(st, Zero)
BaseTDEMSrc_s_eDeriv(src, sim, st, t, v, adjoint) == Out(st, Zero)

\* MagDipole and CircularLoop
MagDipole_srcFct(src, st) ==
    LET c == IF st.cache._dipole = NoObj
             THEN [st.cache EXCEPT !._dipole = [strength |-> src.moment, mu |-> src.mu]]
             ELSE st.cache
    IN  [exc |-> NoExc, val |-> c._dipole, cache |-> c, solves |-> st.solves,
         log |-> st.log]

CircularLoop_srcFct(src, st) ==
    LET c == IF st.cache._loop = NoObj
             THEN [st.cache EXCEPT !._loop =
                      [strength |-> src.current * src.radius, mu |-> src.mu]]
             ELSE st.cache
    IN  [exc |-> NoExc, val |-> c._loop, cache |-> c, solves |-> st.solves,
         log |-> st.log]

srcFct(src, st) ==
    IF src.kind = "CircularLoop" THEN CircularLoop_srcFct(src, st)
    ELSE MagDipole_srcFct(src, st)

\* vector_potential(obsLoc, coordinates)[:, c]
Sample(obj, grid, c, coordinates) ==
    [i \in 1 .. Len(grid) |-> vector_potential(obj.strength, obj.mu, grid[i], c, coordinates)]

MagDipole_aSrc(src, sim, st) ==
    LET mesh == Mesh(sim.mesh)
        EB == sim.formulation = "EB"
        gridX == IF EB THEN mesh.gridEx ELSE mesh.gridFx
        gridY == IF EB THEN mesh.gridEy ELSE mesh.gridFy
        gridZ == IF EB THEN mesh.gridEz ELSE mesh.gridFz
        coordinates == IF mesh._meshType = "CYL" THEN "cylindrical" ELSE "cartesian"
    IN  IF sim.formulation \notin {"EB", "HJ"} THEN Err(st, "UnboundLocalError")
        ELSE Only({
            IF mesh._meshType = "CYL" /\ mesh.isSymmetric
            THEN Then(r, Vec(Sample(r.val, gridY, 1, "cartesian"), 1))
            ELSE Then(r, Vec(Sample(r.val, gridX, 0, coordinates)
                                 \o Sample(r.val, gridY, 1, coordinates)
                                 \o Sample(r.val, gridZ, 2, coordinates), 1))
            : r \in {srcFct(src, st)}})

MagDipole_getAmagnetostatic(src, sim, st) ==
    IF sim.formulation = "EB"
    THEN Out(st, OpMul(Mesh(sim.mesh).faceDiv,
                       OpMul(MfMuiI(sim), OpT(Mesh(sim.mesh).faceDiv))))
    ELSE Err(st, "NotImplementedError")

\* the first part of _rhs_magnetostatic: _hp, _MfMuip and _MfMuipI are built
\* if _hp is not there yet
MagDipole_hp(src, sim, st) ==
    IF st.cache._hp # PyNoneField THEN Out(st, PyNoneField)
    ELSE IF sim.formulation # "EB" THEN Err(st, "NotImplementedError")
    ELSE Only({
        IF a.exc # NoExc THEN a
        ELSE [a EXCEPT !.cache = [a.cache EXCEPT
                 !._MfMuip = MfMuip,
                 !._MfMuipI = getFaceInnerProduct(Mesh(sim.mesh), 1, src.mu, TRUE),
                 !._hp = FMat(MfMuip, FMat(Mesh(sim.mesh).edgeCurl, a.val))]]
        : a \in {MagDipole_aSrc(src, sim, st)},
          MfMuip \in {getFaceInnerProduct(Mesh(sim.mesh), 1, src.mu, FALSE)}})

MagDipole_rhs_magnetostatic(src, sim, st) ==
    Only({
        IF r.exc # NoExc THEN r
        ELSE IF sim.formulation = "EB"
        THEN Then(r, FMat(OpNeg(Mesh(sim.mesh).faceDiv),
                          FMat(OpSub(MfMuiI(sim), r.cache._MfMuipI), r.cache._hp)))
        ELSE Err(r, "NotImplementedError")
        : r \in {MagDipole_hp(src, sim, st)}})

MagDipole_phiSrc(src, sim, st) ==
    Only({
        IF A.exc # NoExc THEN A
        ELSE Only({IF rhs.exc # NoExc THEN rhs
                   ELSE Solved(Cleaned(Then(rhs, FMat(solver(A.val), rhs.val)),
                                       A.solves + 1),
                               A.solves + 1)
                   : rhs \in {MagDipole_rhs_magnetostatic(src, sim, Factored(A))}})
        : A \in {MagDipole_getAmagnetostatic(src, sim, st)}})

MagDipole_bSrc(src, sim, st) ==
    Only({
        Then(a, FMat(IF sim.formulation = "EB" THEN Mesh(sim.mesh).edgeCurl
                     ELSE OpT(Mesh(sim.mesh).edgeCurl),
                     a.val))
        : a \in {MagDipole_aSrc(src, sim, st)}})

\* bInitial that always goes through the magnetostatic correction
MagDipole_bInitial_corrected(src, sim, st) ==
    IF src.waveform.has_initial_fields = FALSE THEN Out(st, Zero)
    ELSE IF sim.formulation = "EB"
    THEN Only({
            Then(phi, FMat(MfMuiI(sim),
                           FAdd(phi.cache._hp,
                                FMat(OpT(Mesh(sim.mesh).faceDiv), phi.val))))
            : phi \in {MagDipole_phiSrc(src, sim, st)}})
    ELSE Err(st, "NotImplementedError")

\* bInitial without the has_initial_fields test
MagDipole_bInitial_unguarded(src, sim, st) ==
    IF \A i \in Idx : sim.mu[i] = src.mu THEN MagDipole_bSrc(src, sim, st)
    ELSE IF sim.formulation = "EB"
    THEN Only({
            Then(phi, FMat(MfMuiI(sim),
                           FAdd(phi.cache._hp,
                                FMat(OpT(Mesh(sim.mesh).faceDiv), phi.val))))
            : phi \in {MagDipole_phiSrc(src, sim, st)}})
    ELSE Err(st, "NotImplementedError")

MagDipole_bInitial(src, sim, st) ==
    IF src.waveform.has_initial_fields = FALSE THEN Out(st, Zero)
    ELSE IF \A i \in Idx : sim.mu[i] = src.mu THEN MagDipole_bSrc(src, sim, st)
    ELSE IF sim.formulation = "EB"
    THEN Only({
            Then(phi, FMat(MfMuiI(sim),
                           FAdd(phi.cache._hp,
                                FMat(OpT(Mesh(sim.mesh).faceDiv), phi.val))))
            : phi \in {MagDipole_phiSrc(src, sim, st)}})
    ELSE Err(st, "NotImplementedError")

MagDipole_hInitial(src, sim, st) ==
    IF src.waveform.has_initial_fields = FALSE THEN Out(st, Zero)
    ELSE Only({Then(b, FScale(1, src.mu, b.val))
               : b \in {MagDipole_bInitial(src, sim, st)}})

\* s_m as a dense vector of zeros once the waveform has initial fields
MagDipole_s_m_dense(src, sim, st, t) ==
    IF src.waveform.has_initial_fields = FALSE THEN Out(st, Zero)
    ELSE Out(st, Vec(ZeroVec, 1))

MagDipole_s_m(src, sim, st, t) ==
    IF src.waveform.has_initial_fields = FALSE THEN Out(st, Zero) ELSE Out(st, Zero)

\* s_e with the first-step test made against time_steps[0]
MagDipole_s_e_first_entry(src, sim, st, t) ==
    LET C == Mesh(sim.mesh).edgeCurl
        MfMui == getFaceInnerProduct(Mesh(sim.mesh), 1, src.mu, FALSE)
        firstStep == /\ src.waveform.has_initial_fields = TRUE
                     /\ t < sim.time_steps[1]
    IN  Only({
        IF b.exc # NoExc THEN b
        ELSE IF sim.formulation = "EB"
        THEN IF firstStep
             THEN IF sim.fieldType = "b" THEN Then(b, Zero)
                  ELSE IF sim.fieldType = "e"
                  THEN Then(b, FMat(OpT(C), FMat(MfMui, b.val)))
                  ELSE Then(b, PyNoneField)
             ELSE Then(b, FAmp(FMat(OpT(C), FMat(MfMui, b.val)),
                               waveform_eval(src.waveform, t)))
        ELSE IF sim.formulation = "HJ"
        THEN IF firstStep
             THEN IF sim.fieldType = "h" THEN Then(b, Zero)
                  ELSE IF sim.fieldType = "j"
                  THEN Then(b, FMat(C, FScale(1, src.mu, b.val)))
                  ELSE Then(b, PyNoneField)
             ELSE Then(b, FAmp(FMat(C, FScale(1, src.mu, b.val)),
                               waveform_eval(src.waveform, t)))
        ELSE Then(b, PyNoneField)
        : b \in {MagDipole_bSrc(src, sim, st)}})

MagDipole_s_e(src, sim, st, t) ==
    LET C == Mesh(sim.mesh).edgeCurl
        MfMui == getFaceInnerProduct(Mesh(sim.mesh), 1, src.mu, FALSE)
        firstStep == /\ src.waveform.has_initial_fields = TRUE
                     /\ t < sim.time_steps[2]
    IN  Only({
        IF b.exc # NoExc THEN b
        ELSE IF sim.formulation = "EB"
        THEN IF firstStep
             THEN IF sim.fieldType = "b" THEN Then(b, Zero)
                  ELSE IF sim.fieldType = "e"
                  THEN Then(b, FMat(OpT(C), FMat(MfMui, b.val)))
                  ELSE Then(b, PyNoneField)
             ELSE Then(b, FAmp(FMat(OpT(C), FMat(MfMui, b.val)),
                               waveform_eval(src.waveform, t)))
        ELSE IF sim.formulation = "HJ"
        THEN IF firstStep
             THEN IF sim.fieldType = "h" THEN Then(b, Zero)
                  ELSE IF sim.fieldType = "j"
                  THEN Then(b, FMat(C, FScale(1, src.mu, b.val)))
                  ELSE Then(b, PyNoneField)
             ELSE Then(b, FAmp(FMat(C, FScale(1, src.mu, b.val)),
                               waveform_eval(src.waveform, t)))
        ELSE Then(b, PyNoneField)
        : b \in {MagDipole_bSrc(src, sim, st)}})

\* LineCurrent (RawVec_Grounded inherits every method)
\* Mejs that returns the edge vector without the current
LineCurrent_Mejs_unit_current(src, sim, st) ==
    LET c == IF st.cache._Mejs = PyNoneField
             THEN [st.cache EXCEPT !._Mejs =
                      segmented_line_current_source_term(Mesh(sim.mesh), src.location)]
             ELSE st.cache
    IN  [exc |-> NoExc, val |-> c._Mejs, cache |-> c, solves |-> st.solves,
         log |-> st.log]

LineCurrent_Mejs(src, sim, st) ==
    LET c == IF st.cache._Mejs = PyNoneField
             THEN [st.cache EXCEPT !._Mejs =
                      segmented_line_current_source_term(Mesh(sim.mesh), src.location)]
             ELSE st.cache
    IN  [exc |-> NoExc, val |-> FScale(src.current, 1, c._Mejs),
         cache |-> c, solves |-> st.solves,
         log |-> st.log]

\* Mfjs that discretizes the wire on the mesh of every simulation it is asked for
LineCurrent_Mfjs_recomputed(src, sim, st) ==
    LET c == [st.cache EXCEPT !._Mfjs =
                 line_through_faces(Mesh(sim.mesh), src.location)]
    IN  [exc |-> NoExc, val |-> FScale(src.current, 1, c._Mfjs),
         cache |-> c, solves |-> st.solves,
         log |-> st.log]

LineCurrent_Mfjs(src, sim, st) ==
    LET c == IF st.cache._Mfjs = PyNoneField
             THEN [st.cache EXCEPT !._Mfjs =
                      line_through_faces(Mesh(sim.mesh), src.location)]
             ELSE st.cache
    IN  [exc |-> NoExc, val |-> FScale(src.current, 1, c._Mfjs),
         cache |-> c, solves |-> st.solves,
         log |-> st.log]

\* Div = sdiag(simulation.mesh.vol) * simulation.mesh.faceDiv
LineCurrent_Div(sim) == OpMul(sdiagVol(Mesh(sim.mesh)), Mesh(sim.mesh).faceDiv)

LineCurrent_getRHSdc(src, sim, st) ==
    IF sim.formulation = "EB"
    THEN Only({Then(Me, FMat(OpT(Mesh(sim.mesh).nodalGrad), Me.val))
               : Me \in {LineCurrent_Mejs(src, sim, st)}})
    ELSE IF sim.formulation = "HJ"
    THEN Only({Then(Mf, FMat(LineCurrent_Div(sim), Mf.val))
               : Mf \in {LineCurrent_Mfjs(src, sim, st)}})
    ELSE Out(st, PyNoneField)

LineCurrent_phiInitial(src, sim, st) ==
    IF src.waveform.has_initial_fields
    THEN Only({Then(RHSdc, FMat(Adcinv(sim), RHSdc.val))
               : RHSdc \in {LineCurrent_getRHSdc(src, sim, st)}})
    ELSE Out(st, Zero)

\* _phiInitialDeriv whose adjoint keeps the forward order of the factors
LineCurrent_phiInitialDeriv_forward_order(src, sim, st, v, adjoint) ==
    IF src.waveform.has_initial_fields
    THEN Only({
            Then(phi, FScale(0 - 1, 1,
                      FMat(Adcinv(sim), getAdcDeriv(sim, phi.val, v, adjoint))))
            : phi \in {LineCurrent_phiInitial(src, sim, st)}})
    ELSE Out(st, Zero)

LineCurrent_phiInitialDeriv(src, sim, st, v, adjoint) ==
    IF src.waveform.has_initial_fields
    THEN Only({
            IF adjoint = TRUE
            THEN Then(phi, FScale(0 - 1, 1,
                          getAdcDeriv(sim, phi.val, FMat(Adcinv(sim), v), TRUE)))
            ELSE Then(phi, FScale(0 - 1, 1,
                          FMat(Adcinv(sim), getAdcDeriv(sim, phi.val, v, FALSE))))
            : phi \in {LineCurrent_phiInitial(src, sim, st)}})
    ELSE Out(st, Zero)

\* eInitial that goes through -Grad * phi whatever the formulation
LineCurrent_eInitial_any_formulation(src, sim, st) ==
    IF src.waveform.has_initial_fields
    THEN Only({Then(phi, FMat(OpNeg(Mesh(sim.mesh).nodalGrad), phi.val))
               : phi \in {LineCurrent_phiInitial(src, sim, st)}})
    ELSE Out(st, Zero)

LineCurrent_eInitial(src, sim, st) ==
    IF src.waveform.has_initial_fields
    THEN IF sim.formulation = "EB"
         THEN Only({Then(phi, FMat(OpNeg(Mesh(sim.mesh).nodalGrad), phi.val))
                    : phi \in {LineCurrent_phiInitial(src, sim, st)}})
         ELSE Err(st, "NotImplementedError")
    ELSE Out(st, Zero)

\* edc = f[self, "e", 0]: the fields object f is given by its e field at step 0
LineCurrent_eInitialDeriv(src, sim, st, v, adjoint, f) ==
    IF src.waveform.has_initial_fields
    THEN IF f = PyNoneField THEN Err(st, "TypeError")
         ELSE Only({
            IF adjoint = FALSE
            THEN Out(st, FMat(Grad, FMat(Adcinv(sim), getAdcDeriv(sim, edc, v, adjoint))))
            ELSE Out(st, getAdcDeriv(sim, edc,
                             FMat(Adcinv(sim), FMat(OpT(Grad), v)), adjoint))
            : edc \in {f}, Grad \in {Mesh(sim.mesh).nodalGrad}})
    ELSE Out(st, Zero)

LineCurrent_jInitial(src, sim, st) ==
    IF src.waveform.has_initial_fields
    THEN IF sim.formulation = "HJ"
         THEN Only({Then(phi, FMat(OpNeg(MfRhoI(sim)),
                                   FMat(OpT(LineCurrent_Div(sim)), phi.val)))
                    : phi \in {LineCurrent_phiInitial(src, sim, st)}})
         ELSE Err(st, "NotImplementedError")
    ELSE Out(st, Zero)

LineCurrent_jInitialDeriv(src, sim, st, v, adjoint) ==
    IF sim.formulation # "HJ" THEN Err(st, "NotImplementedError")
    ELSE IF src.waveform.has_initial_fields = FALSE THEN Out(st, Zero)
    ELSE Only({
        IF adjoint = TRUE
        THEN Only({
                Then(phiDerivT,
                     FNeg(FAdd(MfRhoIDeriv(sim, FMat(OpT(Div), phi.val), v, TRUE),
                               phiDerivT.val)))
                : phiDerivT \in {LineCurrent_phiInitialDeriv(src, sim, phi,
                                    FMat(Div, FMat(OpT(MfRhoI(sim)), v)), TRUE)}})
        ELSE Only({
                Then(phiDeriv,
                     FNeg(FAdd(MfRhoIDeriv(sim, FMat(OpT(Div), phi.val), v, FALSE),
                               FMat(MfRhoI(sim), FMat(OpT(Div), phiDeriv.val)))))
                : phiDeriv \in {LineCurrent_phiInitialDeriv(src, sim, phi, v, FALSE)}})
        : phi \in {LineCurrent_phiInitial(src, sim, st)},
          Div \in {LineCurrent_Div(sim)}})

LineCurrent_getAmmr(src, sim, st) ==
    IF sim.formulation # "HJ" THEN Err(st, "NotImplementedError")
    ELSE Only({
        Out(st, OpSub(OpMul(mesh.edgeCurl, OpMul(MeMuI(sim), OpT(mesh.edgeCurl))),
                      OpMul(OpT(mesh.faceDiv),
                            OpMul(sdiagMuiOverVol(sim), mesh.faceDiv))))
        : mesh \in {Mesh(sim.mesh)}})

LineCurrent_s_m(src, sim, st, t) == Out(st, Zero)

LineCurrent_s_e(src, sim, st, t) ==
    IF sim.formulation = "EB"
    THEN Only({Then(Me, FAmp(Me.val, waveform_eval(src.waveform, t)))
               : Me \in {LineCurrent_Mejs(src, sim, st)}})
    ELSE IF sim.formulation = "HJ"
    THEN Only({Then(Mf, FAmp(Mf.val, waveform_eval(src.waveform, t)))
               : Mf \in {LineCurrent_Mfjs(src, sim, st)}})
    ELSE Out(st, PyNoneField)


LineCurrent_aInitial(src, sim, st) ==
    Only({
        IF A.exc # NoExc THEN A
        ELSE Only({
            IF se.exc # NoExc THEN se
            ELSE Only({IF j.exc # NoExc THEN j
                       ELSE Solved(Then(j, FMat(solver(A.val), FSub(se.val, j.val))),
                                   A.solves + 1)
                       : j \in {LineCurrent_jInitial(src, sim, se)}})
            : se \in {LineCurrent_s_e(src, sim, Factored(A), 0)}})
        : A \in {LineCurrent_getAmmr(src, sim, st)}})

LineCurrent_aInitialDeriv(src, sim, st, v, adjoint) ==
    Only({
        IF A.exc # NoExc THEN A
        ELSE IF adjoint = TRUE
        THEN Only({Then(jT, FScale(0 - 1, 1, jT.val))
                   : jT \in {LineCurrent_jInitialDeriv(
                                src, sim, Solved(Factored(A), A.solves + 1),
                                FMat(solver(A.val), v), TRUE)}})
        ELSE Only({IF j.exc # NoExc THEN j
                   ELSE Solved(Then(j, FScale(0 - 1, 1, FMat(solver(A.val), j.val))),
                               A.solves + 1)
                   : j \in {LineCurrent_jInitialDeriv(src, sim, Factored(A), v, FALSE)}})
        : A \in {LineCurrent_getAmmr(src, sim, st)}})

LineCurrent_bInitial(src, sim, st) ==
    IF sim.formulation # "HJ" THEN Err(st, "NotImplementedError")
    ELSE IF src.waveform.has_initial_fields = FALSE THEN Out(st, Zero)
    ELSE Only({Then(a, FMat(OpT(Mesh(sim.mesh).edgeCurl), a.val))
               : a \in {LineCurrent_aInitial(src, sim, st)}})

LineCurrent_bInitialDeriv(src, sim, st, v, adjoint) ==
    IF sim.formulation # "HJ" THEN Err(st, "NotImplementedError")
    ELSE IF src.waveform.has_initial_fields = FALSE THEN Out(st, Zero)
    ELSE IF adjoint = TRUE
    THEN LineCurrent_aInitialDeriv(src, sim, st,
                                   FMat(Mesh(sim.mesh).edgeCurl, v), TRUE)
    ELSE Only({Then(a, FMat(OpT(Mesh(sim.mesh).edgeCurl), a.val))
               : a \in {LineCurrent_aInitialDeriv(src, sim, st, v, FALSE)}})

LineCurrent_hInitial(src, sim, st) ==
    IF sim.formulation # "HJ" THEN Err(st, "NotImplementedError")
    ELSE IF src.waveform.has_initial_fields = FALSE THEN Out(st, Zero)
    ELSE Only({Then(b, FMat(MeMuI(sim), b.val))
               : b \in {LineCurrent_bInitial(src, sim, st)}})

LineCurrent_hInitialDeriv(src, sim, st, v, adjoint) ==
    IF sim.formulation # "HJ" THEN Err(st, "NotImplementedError")
    ELSE IF src.waveform.has_initial_fields = FALSE THEN Out(st, Zero)
    ELSE IF adjoint = TRUE
    THEN LineCurrent_bInitialDeriv(src, sim, st, FMat(OpT(MeMuI(sim)), v), TRUE)
    ELSE Only({Then(b, FMat(MeMuI(sim), b.val))
               : b \in {LineCurrent_bInitialDeriv(src, sim, st, v, FALSE)}})

(* ---------------------- method resolution by class ----------------------- *)
IsInductive(src) == src.kind \in {"MagDipole", "CircularLoop"}
IsGalvanic(src) == src.kind \in {"LineCurrent", "RawVec_Grounded"}

bInitial(src, sim, st) ==
    IF IsInductive(src) THEN MagDipole_bInitial(src, sim, st)
    ELSE IF IsGalvanic(src) THEN LineCurrent_bInitial(src, sim, st)
    ELSE BaseTDEMSrc_bInitial(src, sim, st)

eInitial(src, sim, st) ==
    IF IsGalvanic(src) THEN LineCurrent_eInitial(src, sim, st)
    ELSE BaseTDEMSrc_eInitial(src, sim, st)

hInitial(src, sim, st) ==
    IF IsInductive(src) THEN MagDipole_hInitial(src, sim, st)
    ELSE IF IsGalvanic(src) THEN LineCurrent_hInitial(src, sim, st)
    ELSE BaseTDEMSrc_hInitial(src, sim, st)

jInitial(src, sim, st) ==
    IF IsGalvanic(src) THEN LineCurrent_jInitial(src, sim, st)
    ELSE BaseTDEMSrc_jInitial(src, sim, st)

bInitialDeriv(src, sim, st, v, adjoint) ==
    IF IsGalvanic(src) THEN LineCurrent_bInitialDeriv(src, sim, st, v, adjoint)
    ELSE BaseTDEMSrc_bInitialDeriv(src, sim, st, v, adjoint)

eInitialDeriv(src, sim, st, v, adjoint, f) ==
    IF IsGalvanic(src) THEN LineCurrent_eInitialDeriv(src, sim, st, v, adjoint, f)
    ELSE BaseTDEMSrc_eInitialDeriv(src, sim, st, v, adjoint)

hInitialDeriv(src, sim, st, v, adjoint) ==
    IF IsGalvanic(src) THEN LineCurrent_hInitialDeriv(src, sim, st, v, adjoint)
    ELSE BaseTDEMSrc_hInitialDeriv(src, sim, st, v, adjoint)

jInitialDeriv(src, sim, st, v, adjoint) ==
    IF IsGalvanic(src) THEN LineCurrent_jInitialDeriv(src, sim, st, v, adjoint)
    ELSE BaseTDEMSrc_jInitialDeriv(src, sim, st, v, adjoint)

s_m(src, sim, st, t) ==
    IF IsInductive(src) THEN MagDipole_s_m(src, sim, st, t)
    ELSE IF IsGalvanic(src) THEN LineCurrent_s_m(src, sim, st, t)
    ELSE BaseTDEMSrc_s_m(src, sim, st, t)

s_e(src, sim, st, t) ==
    IF IsInductive(src) THEN MagDipole_s_e(src, sim, st, t)
    ELSE IF IsGalvanic(src) THEN LineCurrent_s_e(src, sim, st, t)
    ELSE BaseTDEMSrc_s_e(src, sim, st, t)

\* no source class overrides s_mDeriv or s_eDeriv
s_mDeriv(src, sim, st, t, v, adjoint) == BaseTDEMSrc_s_mDeriv(src, sim, st, t, v, adjoint)
s_eDeriv(src, sim, st, t, v, adjoint) == BaseTDEMSrc_s_eDeriv(src, sim, st, t, v, adjoint)

BaseTDEMSrc_eval(src, sim, st, t) ==
    Only({
        IF m.exc # NoExc THEN m
        ELSE Only({Then(e, <<m.val, e.val>>) : e \in {s_e(src, sim, m, t)}})
        : m \in {s_m(src, sim, st, t)}})

\* lambda v: self.s_mDeriv(simulation, time, v, adjoint), by what it captures
Lambda(fn, sim, t, adjoint) ==
    [k |-> "lambda", fn |-> fn, simulation |-> sim, time |-> t, adjoint |-> adjoint]

\* op(v) for such a closure
Apply(src, st, op, v) ==
    IF op.fn = "s_mDeriv"
    THEN s_mDeriv(src, op.simulation, st, op.time, v, op.adjoint)
    ELSE s_eDeriv(src, op.simulation, st, op.time, v, op.adjoint)

\* evalDeriv whose closures fall back on the default adjoint=False
BaseTDEMSrc_evalDeriv_default_adjoint(src, sim, st, t, v, adjoint) ==
    IF v # PyNoneField
    THEN Only({
            IF m.exc # NoExc THEN m
            ELSE Only({Then(e, <<m.val, e.val>>)
                       : e \in {s_eDeriv(src, sim, m, t, v, adjoint)}})
            : m \in {s_mDeriv(src, sim, st, t, v, adjoint)}})
    ELSE Out(st, <<Lambda("s_mDeriv", sim, t, FALSE),
                   Lambda("s_eDeriv", sim, t, FALSE)>>)

BaseTDEMSrc_evalDeriv(src, sim, st, t, v, adjoint) ==
    IF v # PyNoneField
    THEN Only({
            IF m.exc # NoExc THEN m
            ELSE Only({Then(e, <<m.val, e.val>>)
                       : e \in {s_eDeriv(src, sim, m, t, v, adjoint)}})
            : m \in {s_mDeriv(src, sim, st, t, v, adjoint)}})
    ELSE Out(st, <<Lambda("s_mDeriv", sim, t, adjoint),
                   Lambda("s_eDeriv", sim, t, adjoint)>>)

\* RawVec_Grounded.__init__: a given s_e is stored as the face injection vector
RawVec_Grounded_init(given_s_e) ==
    IF given_s_e # PyNoneField THEN [NoCache EXCEPT !._Mfjs = given_s_e] ELSE NoCache

(* ----------------------------- state ------------------------------------ *)
\* cls, args: the constructor call last made; self: the instance as that
\* call left it; exc: the exception it raised, NoExc if it returned;
\* time, ret: the last eval call and what its caller got
Init ==
    /\ cls = "none"
    /\ args = NoArgs
    /\ self = NewObject
    /\ exc = NoExc
    /\ time = 0
    /\ ret = NoRet
    /\ pc = "start"
    /\ SrcIdle

\* w = Cls(...): __init__ runs on a new object; the caller holds an instance
\* only if it returns.  One behaviour follows one waveform.
Construct(c, a, r) ==
    /\ cls' = c
    /\ args' = a
    /\ self' = r.self
    /\ exc' = r.exc
    /\ pc' = IF r.exc = NoExc THEN "constructed" ELSE "raised"
    /\ time' = 0
    /\ ret' = NoRet
    /\ UNCHANGED srcVars

NewStepOff ==
    \E off_time \in OffTimeArgs, kwargs \in KwargsArgs :
        /\ pc = "start"
        /\ Construct("StepOffWaveform",
                  [NoArgs EXCEPT !.off_time = off_time, !.kwargs = kwargs],
                  StepOffWaveform_init(NewObject, off_time, kwargs))

NewRampOff ==
    \E off_time \in OffTimeArgs, kwargs \in KwargsArgs :
        /\ pc = "start"
        /\ Construct("RampOffWaveform",
                  [NoArgs EXCEPT !.off_time = off_time, !.kwargs = kwargs],
                  RampOffWaveform_init(NewObject, off_time, kwargs))

NewRaw ==
    \E off_time \in OffTimeArgs, f \in FunctionArgs, kwargs \in KwargsArgs :
        /\ pc = "start"
        /\ Construct("RawWaveform",
                  [NoArgs EXCEPT !.off_time = off_time, !.waveform_function = f,
                                 !.kwargs = kwargs],
                  RawWaveform_init(NewObject, off_time, f, kwargs))

NewVTEM ==
    \E off_time \in OffTimeArgs, peak_time \in PeakTimeArgs,
       ramp_on_rate \in RampOnRateArgs, kwargs \in KwargsArgs :
        /\ pc = "start"
        /\ Construct("VTEMWaveform",
                  [NoArgs EXCEPT !.off_time = off_time, !.peak_time = peak_time,
                                 !.ramp_on_rate = ramp_on_rate, !.kwargs = kwargs],
                  VTEMWaveform_init(NewObject, off_time, peak_time, ramp_on_rate,
                                    kwargs))

NewTrapezoid ==
    \E ramp_on \in RampArgs, ramp_off \in RampArgs,
       off_time \in OffTimeArgs \cup {PyNone} :
        /\ pc = "start"
        /\ Construct("TrapezoidWaveform",
                  [NoArgs EXCEPT !.ramp_on = ramp_on, !.ramp_off = ramp_off,
                                 !.off_time = off_time],
                  TrapezoidWaveform_init(NewObject, ramp_on, ramp_off, off_time))

NewTriangular ==
    \E off_time \in OffTimeArgs, peak_time \in PeakTimeArgs :
        /\ pc = "start"
        /\ Construct("TriangularWaveform",
                  [NoArgs EXCEPT !.off_time = off_time, !.peak_time = peak_time],
                  TriangularWaveform_init(NewObject, off_time, peak_time))

NewQuarterSine ==
    \E ramp_on \in RampArgs, ramp_off \in RampArgs :
        /\ pc = "start"
        /\ Construct("QuarterSineRampOnWaveform",
                  [NoArgs EXCEPT !.ramp_on = ramp_on, !.ramp_off = ramp_off],
                  QuarterSineRampOnWaveform_init(NewObject, ramp_on, ramp_off,
                                                 NoKwargs))

NewHalfSine ==
    \E ramp_on \in RampArgs, ramp_off \in RampArgs :
        /\ pc = "start"
        /\ Construct("HalfSineWaveform",
                  [NoArgs EXCEPT !.ramp_on = ramp_on, !.ramp_off = ramp_off],
                  HalfSineWaveform_init(NewObject, ramp_on, ramp_off, NoKwargs))

\* w.eval(t), the statement after w = Cls(...): eval runs on the instance if
\* the constructor returned one; if it raised, the exception is what the
\* caller gets and eval is not entered
Eval ==
    /\ pc \in {"constructed", "raised", "evaluated"}
    /\ \E t \in Times :
        /\ time' = t
        /\ ret' = IF exc = NoExc THEN eval(cls, self, t) ELSE RaiseV(exc)
    /\ pc' = "evaluated"
    /\ UNCHANGED <<cls, args, self, exc>>
    /\ UNCHANGED srcVars

Next ==
    \/ NewStepOff
    \/ NewRampOff
    \/ NewRaw
    \/ NewVTEM
    \/ NewTrapezoid
    \/ NewTriangular
    \/ NewQuarterSine
    \/ NewHalfSine
    \/ Eval

Spec == Init /\ [][Next]_vars

(* ------------------------ the source state machine ----------------------- *)
\* source, simulation: a source object and the simulation that queries it;
\* cache: the source's lazily created attributes; solverCalls: how many
\* factorizations simulation.solver has handed out; call, result: the query
\* in progress and its outcome; handles: what that query did with the
\* factorization handles it obtained
MaxSrcTime == 2
MaxSolves == 2

SrcTimes == 0 .. MaxSrcTime
Seeds == {Vec(<<1, 0, 0>>, 1), Vec(<<0, 1, 0>>, 1), Vec(<<0, 0, 1>>, 1),
          Vec(<<1, 0 - 1, 2>>, 1)}
FieldsArgs == {Vec(<<1, 2, 0>>, 1)}

Waveforms ==
    {[has_initial_fields |-> TRUE, shape |-> "step"],
     [has_initial_fields |-> TRUE, shape |-> "ramp"],
     [has_initial_fields |-> FALSE, shape |-> "ramp"]}

Src(kind, w, mu, current, s) ==
    [kind |-> kind, waveform |-> w, mu |-> mu, moment |-> 2, radius |-> 2,
     current |-> current, location |-> "wire", s_e |-> s]

Sources ==
    {Src("BaseTDEMSrc", w, 1, 1, PyNoneField) : w \in Waveforms}
    \cup {Src(k, w, mu, 1, PyNoneField) :
             k \in {"MagDipole", "CircularLoop"}, w \in Waveforms, mu \in {1, 2}}
    \cup {Src("LineCurrent", w, 1, c, PyNoneField) : w \in Waveforms, c \in {1, 2}}
    \cup {Src("RawVec_Grounded", w, 1, 2, s) :
             w \in Waveforms, s \in {PyNoneField, Vec(<<2, 0, 1>>, 1)}}

Sim(formulation, fieldType, mesh, mu) ==
    [formulation |-> formulation, fieldType |-> fieldType, mesh |-> mesh,
     mu |-> mu, rho |-> <<1, 2, 1>>, time_steps |-> <<2, 1, 1>>]

Simulations ==
    {Sim(ff[1], ff[2], mesh, mu) :
        ff \in {<<"EB", "b">>, <<"EB", "e">>, <<"HJ", "h">>, <<"HJ", "j">>},
        mesh \in MeshIds, mu \in {<<1, 1, 1>>, <<1, 2, 1>>}}

InitSrc ==
    /\ cls = "none"
    /\ args = NoArgs
    /\ self = NewObject
    /\ exc = NoExc
    /\ time = 0
    /\ ret = NoRet
    /\ pc = "source"
    /\ source \in Sources
    /\ simulation \in Simulations
    /\ cache = RawVec_Grounded_init(source.s_e)
    /\ solverCalls = 0
    /\ call = NoCall
    /\ result = NoResult
    /\ handles = <<>>

\* a query runs to its end: the caller gets the value or the exception, the
\* source keeps the attributes the query created
\* Ainv.clean() releases the factorization; what Ainv * rhs does with a
\* released handle is up to the solver: it may still answer, it may fail
AppliedAfterClean(log) ==
    \E i, j \in DOMAIN log :
        /\ i < j
        /\ log[i].op = "clean" /\ log[j].op = "solve"
        /\ log[i].h = log[j].h

Outcomes(r) ==
    IF r.exc = NoExc /\ AppliedAfterClean(r.log)
    THEN {r, [r EXCEPT !.exc = "SolverError", !.val = PyNoneField]}
    ELSE {r}

Query(c, r) ==
    /\ call' = c
    /\ \E o \in Outcomes(r) : result' = [exc |-> o.exc, val |-> o.val]
    /\ cache' = r.cache
    /\ solverCalls' = r.solves
    /\ handles' = r.log
    /\ UNCHANGED <<source, simulation>>
    /\ UNCHANGED wfVars

Idle ==
    /\ pc = "source"
    /\ call = NoCall
    /\ solverCalls < MaxSolves

St == [cache |-> cache, solves |-> solverCalls, log |-> <<>>]
CallOf(name) == [NoCall EXCEPT !.name = name]

Call_bInitial ==
    /\ Idle
    /\ Query(CallOf("bInitial"), bInitial(source, simulation, St))

Call_eInitial ==
    /\ Idle
    /\ Query(CallOf("eInitial"), eInitial(source, simulation, St))

Call_hInitial ==
    /\ Idle
    /\ Query(CallOf("hInitial"), hInitial(source, simulation, St))

Call_jInitial ==
    /\ Idle
    /\ Query(CallOf("jInitial"), jInitial(source, simulation, St))

Call_phiInitial ==
    /\ Idle
    /\ IsGalvanic(source)
    /\ Query(CallOf("phiInitial"), LineCurrent_phiInitial(source, simulation, St))

Call_bInitialDeriv ==
    \E v \in Seeds, adjoint \in BOOLEAN :
        /\ Idle
        /\ Query([CallOf("bInitialDeriv") EXCEPT !.v = v, !.adjoint = adjoint],
                 bInitialDeriv(source, simulation, St, v, adjoint))

Call_eInitialDeriv ==
    \E v \in Seeds, adjoint \in BOOLEAN, f \in FieldsArgs :
        /\ Idle
        /\ Query([CallOf("eInitialDeriv") EXCEPT !.v = v, !.adjoint = adjoint, !.f = f],
                 eInitialDeriv(source, simulation, St, v, adjoint, f))

Call_hInitialDeriv ==
    \E v \in Seeds, adjoint \in BOOLEAN :
        /\ Idle
        /\ Query([CallOf("hInitialDeriv") EXCEPT !.v = v, !.adjoint = adjoint],
                 hInitialDeriv(source, simulation, St, v, adjoint))

Call_jInitialDeriv ==
    \E v \in Seeds, adjoint \in BOOLEAN :
        /\ Idle
        /\ Query([CallOf("jInitialDeriv") EXCEPT !.v = v, !.adjoint = adjoint],
                 jInitialDeriv(source, simulation, St, v, adjoint))

Call_phiInitialDeriv ==
    \E v \in Seeds, adjoint \in BOOLEAN :
        /\ Idle
        /\ IsGalvanic(source)
        /\ Query([CallOf("_phiInitialDeriv") EXCEPT !.v = v, !.adjoint = adjoint],
                 LineCurrent_phiInitialDeriv(source, simulation, St, v, adjoint))

Call_aInitialDeriv ==
    \E v \in Seeds, adjoint \in BOOLEAN :
        /\ Idle
        /\ IsGalvanic(source)
        /\ Query([CallOf("_aInitialDeriv") EXCEPT !.v = v, !.adjoint = adjoint],
                 LineCurrent_aInitialDeriv(source, simulation, St, v, adjoint))

Call_getAmmr ==
    /\ Idle
    /\ IsGalvanic(source)
    /\ Query(CallOf("_getAmmr"), LineCurrent_getAmmr(source, simulation, St))

Call_bSrc ==
    /\ Idle
    /\ IsInductive(source)
    /\ Query(CallOf("_bSrc"), MagDipole_bSrc(source, simulation, St))

Call_s_m ==
    \E t \in SrcTimes :
        /\ Idle
        /\ Query([CallOf("s_m") EXCEPT !.time = t], s_m(source, simulation, St, t))

Call_s_e ==
    \E t \in SrcTimes :
        /\ Idle
        /\ Query([CallOf("s_e") EXCEPT !.time = t], s_e(source, simulation, St, t))

Call_eval ==
    \E t \in SrcTimes :
        /\ Idle
        /\ Query([CallOf("eval") EXCEPT !.time = t],
                 BaseTDEMSrc_eval(source, simulation, St, t))

Call_evalDeriv ==
    \E t \in SrcTimes, v \in Seeds \cup {PyNoneField}, adjoint \in BOOLEAN :
        /\ Idle
        /\ Query([CallOf("evalDeriv") EXCEPT !.time = t, !.v = v, !.adjoint = adjoint],
                 BaseTDEMSrc_evalDeriv(source, simulation, St, t, v, adjoint))

\* the caller of evalDeriv(simulation, time, adjoint=...) applies the two
\* operators it got to a vector
Call_operators ==
    \E v \in Seeds :
        /\ pc = "source"
        /\ call.name = "evalDeriv"
        /\ call.v = PyNoneField
        /\ result.exc = NoExc
        /\ Query([call EXCEPT !.name = "operators", !.v = v],
                 Only({
                    IF m.exc # NoExc THEN m
                    ELSE Only({Then(e, <<m.val, e.val>>)
                               : e \in {Apply(source, m, result.val[2], v)}})
                    : m \in {Apply(source, St, result.val[1], v)}}))

\* the caller is done with the outcome; the source keeps its attributes
Done ==
    /\ pc = "source"
    /\ call # NoCall
    /\ call' = NoCall
    /\ result' = NoResult
    /\ handles' = <<>>
    /\ UNCHANGED <<source, simulation, cache, solverCalls>>
    /\ UNCHANGED wfVars

NextSrc ==
    \/ Call_bInitial \/ Call_eInitial \/ Call_hInitial \/ Call_jInitial
    \/ Call_phiInitial
    \/ Call_bInitialDeriv \/ Call_eInitialDeriv \/ Call_hInitialDeriv
    \/ Call_jInitialDeriv \/ Call_phiInitialDeriv \/ Call_aInitialDeriv
    \/ Call_getAmmr \/ Call_bSrc
    \/ Call_s_m \/ Call_s_e \/ Call_eval \/ Call_evalDeriv \/ Call_operators
    \/ Done

SpecSrc == InitSrc /\ [][NextSrc]_vars


(* ------------------ what the claims speak about ------------------------- *)
Evaluated == pc = "evaluated"
Called == pc # "start"
Returned == ret.exc = NoExc

\* the epsilon the call asks for (StepOff takes none)
EpsilonAsked ==
    IF cls = "StepOffWaveform" \/ args.kwargs.epsilon = Absent
    THEN DefaultEpsilon
    ELSE args.kwargs.epsilon.v

\* keyword arguments inside their documented domain
KwargsInDomain ==
    /\ args.kwargs.has_initial_fields = Absent
    /\ args.kwargs.epsilon = Absent
       \/ (IsFloat(args.kwargs.epsilon) /\ args.kwargs.epsilon.v > 0)

IsInterval(x) == x.ty \in {"list", "ndarray"} /\ Len(x.v) = 2

\* the four ramp times of a trapezoid-like call
RampTimes ==
    IF cls = "TriangularWaveform"
    THEN <<0, args.peak_time.v, args.peak_time.v, args.off_time.v>>
    ELSE <<args.ramp_on.v[1], args.ramp_on.v[2],
           args.ramp_off.v[1], args.ramp_off.v[2]>>

\* a constructor call whose arguments are all inside their documented domain
InDomain ==
    CASE cls \in {"StepOffWaveform", "RampOffWaveform"} ->
            IsFloat(args.off_time) /\ KwargsInDomain
      [] cls = "RawWaveform" ->
            IsFloat(args.off_time) /\ KwargsInDomain
            /\ IsCallable(args.waveform_function)
      [] cls = "VTEMWaveform" ->
            IsFloat(args.off_time) /\ IsFloat(args.peak_time)
            /\ IsFloat(args.ramp_on_rate) /\ KwargsInDomain
            /\ args.peak_time.v < args.off_time.v
      [] cls = "TriangularWaveform" ->
            IsFloat(args.off_time) /\ IsFloat(args.peak_time)
            /\ 0 < args.peak_time.v /\ args.peak_time.v < args.off_time.v
      [] cls \in {"TrapezoidWaveform", "QuarterSineRampOnWaveform",
                  "HalfSineWaveform"} ->
            IsInterval(args.ramp_on) /\ IsInterval(args.ramp_off)
            /\ args.off_time \in {Absent, PyNone} \cup {PyFloat(n) : n \in Params}
      [] OTHER -> FALSE

\* ramp-on strictly before plateau end, plateau not after ramp-off start
ProperRamps ==
    /\ RampTimes[1] < RampTimes[2]
    /\ RampTimes[2] <= RampTimes[3]
    /\ RampTimes[3] < RampTimes[4]

\* a returned amplitude inside [0, 1]
InUnitInterval(x) ==
    \/ x.k = "num" /\ 0 <= x.n /\ x.n <= x.d
    \/ x.k \in {"sin", "cos"} /\ 0 <= x.n /\ x.n <= x.d
    \/ x.k = "expramp" /\ 0 <= x.n /\ x.n <= x.a * x.d /\ x.a > 0

IsNumber(x) == x.k \in {"num", "sin", "cos", "expramp", "call"}

(* ------------------------------ claims ---------------------------------- *)
\* C1: a StepOff waveform built with a float off_time returns 1.0 from
\* eval(0.0) and 0.0 from eval(t) for every t with |t| > epsilon.
C1_StepOffEval ==
    (cls = "StepOffWaveform" /\ InDomain /\ Evaluated) =>
        /\ Returned
        /\ time = 0 => ret.val = Amp1
        /\ Abs(time) > EpsilonAsked => ret.val = Amp0

\* C2: for StepOff, RampOff, Trapezoid, Triangular, QuarterSineRampOn and
\* HalfSine waveforms built with in-domain arguments, eval(time) returns an
\* amplitude in [0, 1] at every time, negative times and times past off_time
\* included.
C2_EvalInUnitInterval ==
    (cls \in {"StepOffWaveform", "RampOffWaveform", "TrapezoidWaveform",
              "TriangularWaveform", "QuarterSineRampOnWaveform",
              "HalfSineWaveform"}
     /\ InDomain /\ (cls \notin {"StepOffWaveform", "RampOffWaveform"} => ProperRamps)
     /\ Evaluated) =>
        Returned /\ InUnitInterval(ret.val)

\* C3: a RampOff waveform with off_time >= epsilon returns 1 when
\* |t| < epsilon, (off_time - t)/off_time for epsilon <= t < off_time, exactly
\* 0 at t = off_time and 0 for every t > off_time.
C3_RampOffEval ==
    (cls = "RampOffWaveform" /\ InDomain /\ args.off_time.v >= EpsilonAsked
     /\ Evaluated) =>
        /\ Returned
        /\ Abs(time) < EpsilonAsked => ret.val = Amp1
        /\ (EpsilonAsked <= time /\ time < args.off_time.v) =>
              ret.val = Num(args.off_time.v - time, args.off_time.v)
        /\ time >= args.off_time.v => ret.val = Amp0

\* C4: a VTEM waveform with 0 < peak_time < off_time and a positive rate
\* returns the ramp-on form at its upper bound (1) from eval(peak_time), the
\* linear ramp-off (off_time - t)/(off_time - peak_time) for
\* peak_time < t < off_time, and 0.0 from eval(off_time) and every later time.
C4_VTEMEval ==
    (cls = "VTEMWaveform" /\ InDomain /\ args.peak_time.v > 0
     /\ args.ramp_on_rate.v > 0 /\ Evaluated) =>
        /\ Returned
        /\ time = args.peak_time.v => ret.val = Amp1
        /\ (args.peak_time.v < time /\ time < args.off_time.v) =>
              ret.val = Num(args.off_time.v - time,
                            args.off_time.v - args.peak_time.v)
        /\ time >= args.off_time.v => ret.val = Amp0

\* C5: constructing a VTEM waveform with float times fails with
\* InvalidConfiguration (ValueError) whenever peak_time >= off_time, equality
\* included, and succeeds whenever peak_time < off_time.
C5_VTEMPeakBeforeOff ==
    (cls = "VTEMWaveform" /\ Called /\ IsFloat(args.off_time)
     /\ IsFloat(args.peak_time) /\ IsFloat(args.ramp_on_rate)
     /\ KwargsInDomain) =>
        /\ args.peak_time.v >= args.off_time.v => exc = "ValueError"
        /\ args.peak_time.v < args.off_time.v => exc = NoExc

\* C6: for Trapezoid, Triangular, QuarterSineRampOn and HalfSine waveforms
\* eval is exactly 1 at ramp_on1 and at ramp_off0, exactly 0 at ramp_on0 and
\* at ramp_off1, and exactly 0 at every t < ramp_on0 and every t > ramp_off1.
C6_BoundaryContinuity ==
    (cls \in {"TrapezoidWaveform", "TriangularWaveform",
              "QuarterSineRampOnWaveform", "HalfSineWaveform"}
     /\ InDomain /\ ProperRamps /\ Evaluated) =>
        /\ Returned
        /\ time \in {RampTimes[2], RampTimes[3]} => ret.val = Amp1
        /\ time \in {RampTimes[1], RampTimes[4]} => ret.val = Amp0
        /\ (time < RampTimes[1] \/ time > RampTimes[4]) => ret.val = Amp0

\* C7: eval is total: for every variant built with in-domain arguments,
\* degenerate ones included (RampOff with off_time = 0, a trapezoid with
\* ramp_on0 = ramp_on1 or ramp_off0 = ramp_off1), eval(time) returns a number
\* at every time: it neither raises nor returns nan.
C7_EvalTotal ==
    (cls \in Classes /\ InDomain /\ Evaluated) =>
        Returned /\ IsNumber(ret.val)

\* C8: construction raises InvalidConfiguration (ValueError) whenever epsilon
\* is negative, has_initial_fields is not a bool, a ramp interval does not
\* have exactly two entries, or the Raw waveform function is not callable.
C8_ConstructionFailsFast ==
    (Called /\ \/ /\ cls \in {"RampOffWaveform", "RawWaveform", "VTEMWaveform"}
                  /\ IsFloat(args.kwargs.epsilon) /\ args.kwargs.epsilon.v < 0
                  /\ args.kwargs.has_initial_fields = Absent
               \/ /\ cls = "RawWaveform"
                  /\ args.kwargs.has_initial_fields \notin {Absent, PyBool(TRUE)}
               \/ /\ cls \in {"TrapezoidWaveform", "QuarterSineRampOnWaveform",
                              "HalfSineWaveform"}
                  /\ \E r \in {args.ramp_on, args.ramp_off} :
                        r.ty \in {"list", "ndarray"} /\ Len(r.v) # 2
               \/ /\ cls = "RawWaveform"
                  /\ ~IsCallable(args.waveform_function)) =>
        exc = "ValueError"

\* C9: a Trapezoid built without an off_time has off_time = ramp_off[1]; built
\* with an off_time, it has the supplied one.
C9_TrapezoidOffTimeDefault ==
    (cls = "TrapezoidWaveform" /\ InDomain /\ Called) =>
        /\ exc = NoExc
        /\ self["_off_time"] = IF args.off_time = PyNone
                               THEN PyFloat(args.ramp_off.v[2])
                               ELSE args.off_time

\* C10: Triangular(off_time, peak_time) with 0 < peak_time < off_time is
\* constructed, and its eval equals at every time the Trapezoid eval for
\* ramp_on = [0, peak_time], ramp_off = [peak_time, off_time].
C10_TriangularIsTrapezoid ==
    (cls = "TriangularWaveform" /\ InDomain /\ Called) =>
        /\ exc = NoExc
        /\ Evaluated =>
              ret = TrapezoidWaveform_eval(
                      [NewObject EXCEPT
                          !["_ramp_on"] = NdArray(<<0, args.peak_time.v>>),
                          !["_ramp_off"] = NdArray(<<args.peak_time.v,
                                                     args.off_time.v>>)],
                      time)

\* C11: has_initial_fields is fixed by the variant: a StepOff or RampOff
\* waveform built with in-domain arguments has has_initial_fields = True, and
\* a VTEM, Trapezoid, Triangular, QuarterSineRampOn or HalfSine waveform has
\* has_initial_fields = False.
C11_HasInitialFieldsByVariant ==
    (cls \in Classes \ {"RawWaveform"} /\ InDomain /\ Called) =>
        /\ exc = NoExc
        /\ self["_has_initial_fields"] =
              PyBool(cls \in {"StepOffWaveform", "RampOffWaveform"})

(* ------------------------- claims on the sources ------------------------- *)
InitialQueries == {"bInitial", "eInitial", "hInitial", "jInitial"}
InitialDerivQueries ==
    {"bInitialDeriv", "eInitialDeriv", "hInitialDeriv", "jInitialDeriv"}

\* C12: on a BaseTDEMSrc, bInitial, eInitial, hInitial, jInitial and their
\* *Deriv counterparts return the Zero sentinel for every simulation, seed
\* vector and adjoint flag, and eval(simulation, time) returns the pair
\* (s_m, s_e) with both components the Zero sentinel.
C12_BaseDefaultsZero ==
    source.kind = "BaseTDEMSrc" =>
        /\ call.name \in InitialQueries \cup InitialDerivQueries =>
              result = [exc |-> NoExc, val |-> Zero]
        /\ call.name = "eval" =>
              result = [exc |-> NoExc, val |-> <<Zero, Zero>>]

C12_Witness ==
    /\ source.kind = "BaseTDEMSrc"
    /\ call.name = "eval"
    /\ call.time > 0
    /\ result.val = <<Zero, Zero>>

\* the pair (s_mDeriv.v, s_eDeriv.v) for the seed, time and adjoint flag of
\* the call in progress
DerivPair ==
    <<s_mDeriv(source, simulation, St, call.time, call.v, call.adjoint).val,
      s_eDeriv(source, simulation, St, call.time, call.v, call.adjoint).val>>

\* C13: evalDeriv(simulation, time, v, adjoint) returns the pair
\* (s_mDeriv.v, s_eDeriv.v); with v omitted it returns two operators, one
\* per derivative, that carry the simulation, the time and the adjoint flag
\* given at the call, and applying them to a vector v gives that same pair.
C13_EvalDerivModesAgree ==
    /\ call.name = "evalDeriv" /\ call.v # PyNoneField =>
          result = [exc |-> NoExc, val |-> DerivPair]
    /\ call.name = "evalDeriv" /\ call.v = PyNoneField =>
          /\ result.exc = NoExc
          /\ result.val[1].fn = "s_mDeriv" /\ result.val[2].fn = "s_eDeriv"
          /\ \A i \in {1, 2} :
                /\ result.val[i].simulation = simulation
                /\ result.val[i].time = call.time
                /\ result.val[i].adjoint = call.adjoint
    /\ call.name = "operators" =>
          result = [exc |-> NoExc, val |-> DerivPair]

C13_Witness ==
    /\ call.name = "operators"
    /\ call.adjoint
    /\ call.time > 0
    /\ call.v \in Seeds
    /\ result.val = DerivPair

\* C14: for an inductive source (MagDipole, CircularLoop) whose waveform has
\* has_initial_fields False, bInitial, hInitial, eInitial, jInitial and the
\* *InitialDeriv queries return the Zero sentinel for every simulation
\* (either formulation, any permeability), none raises and the solver is
\* never invoked.
C14_InductiveNoInitialFields ==
    IsInductive(source) /\ source.waveform.has_initial_fields = FALSE =>
        /\ solverCalls = 0
        /\ call.name \in InitialQueries \cup InitialDerivQueries =>
              result = [exc |-> NoExc, val |-> Zero]

C14_Witness ==
    /\ IsInductive(source)
    /\ source.waveform.has_initial_fields = FALSE
    /\ call.name = "bInitial"
    /\ simulation.formulation = "HJ"
    /\ \E i \in Idx : simulation.mu[i] # source.mu
    /\ result = [exc |-> NoExc, val |-> Zero]

\* the simulation's permeability equals the source's mu in every cell
UniformMu == \A i \in Idx : simulation.mu[i] = source.mu

\* the curl of the vector potential sampled on the mesh: edgeCurl on the
\* edge samples under EB, its transpose on the face samples under HJ
SourceField ==
    FMat(IF simulation.formulation = "EB" THEN Mesh(simulation.mesh).edgeCurl
         ELSE OpT(Mesh(simulation.mesh).edgeCurl),
         MagDipole_aSrc(source, simulation, St).val)

\* C15: for an inductive source with has_initial_fields True and a
\* simulation whose permeability equals the source's mu everywhere, bInitial
\* returns exactly the source field (the curl of the sampled vector
\* potential) under EB and under HJ, and the magnetostatic correction is not
\* taken: nothing of it is assembled and the solver-call count stays 0.
C15_UniformMuSourceField ==
    IsInductive(source) /\ source.waveform.has_initial_fields = TRUE /\ UniformMu =>
        /\ solverCalls = 0
        /\ cache._hp = PyNoneField
        /\ cache._MfMuip = NoOp /\ cache._MfMuipI = NoOp
        /\ call.name = "bInitial" =>
              result = [exc |-> NoExc, val |-> SourceField]

C15_Witness ==
    /\ IsInductive(source) /\ source.waveform.has_initial_fields = TRUE
    /\ UniformMu
    /\ simulation.formulation = "HJ"
    /\ call.name = "bInitial"
    /\ result.val = SourceField
    /\ result.val.k = "vec" /\ result.val.v # ZeroVec

C15_WitnessEB ==
    /\ IsInductive(source) /\ source.waveform.has_initial_fields = TRUE
    /\ UniformMu
    /\ simulation.formulation = "EB"
    /\ call.name = "bInitial"
    /\ result.val = SourceField
    /\ result.val.k = "vec" /\ result.val.v # ZeroVec

\* the injection of an inductive source: curl^T (MfMui b) under EB and
\* curl (b / mu) under HJ, b the source field
Injection ==
    IF simulation.formulation = "EB"
    THEN FMat(OpT(Mesh(simulation.mesh).edgeCurl),
              FMat(getFaceInnerProduct(Mesh(simulation.mesh), 1, source.mu, FALSE),
                   SourceField))
    ELSE FMat(Mesh(simulation.mesh).edgeCurl, FScale(1, source.mu, SourceField))

\* has_initial_fields is True and the time of the call is before
\* time_steps[1] (Python index; the tuple is 1-based here)
FirstStep ==
    /\ source.waveform.has_initial_fields = TRUE
    /\ call.time < simulation.time_steps[2]

\* the field the simulation solves for is the magnetic one of its formulation
PrimaryField ==
    simulation.fieldType = (IF simulation.formulation = "EB" THEN "b" ELSE "h")

C16_WitnessStepOff ==
    /\ IsInductive(source) /\ call.name = "s_e"
    /\ source.waveform.shape = "step"
    /\ ~FirstStep
    /\ Injection.v # ZeroVec
    /\ result.val = Vec(ZeroVec, 1)

C16_WitnessFirstStep ==
    /\ IsInductive(source) /\ call.name = "s_e"
    /\ FirstStep /\ ~PrimaryField
    /\ simulation.formulation = "HJ"
    /\ result.val = Injection
    /\ result.val.v # ZeroVec

\* C17: s_m(simulation, time) is the Zero sentinel for every inductive and
\* every galvanic source, every simulation and time and either value of
\* has_initial_fields, and so is the first component of
\* eval(simulation, time).
C17_SmAlwaysZero ==
    IsInductive(source) \/ IsGalvanic(source) =>
        /\ call.name = "s_m" => result = [exc |-> NoExc, val |-> Zero]
        /\ call.name = "eval" => result.exc = NoExc /\ result.val[1] = Zero

C17_Witness ==
    /\ IsInductive(source)
    /\ source.waveform.has_initial_fields = TRUE
    /\ call.name = "eval"
    /\ result.val[1] = Zero
    /\ result.val[2].k = "vec" /\ result.val[2].v # ZeroVec

C17_WitnessGalvanic ==
    /\ IsGalvanic(source)
    /\ call.name = "eval"
    /\ call.time > 0
    /\ result.val[1] = Zero
    /\ result.val[2].k = "vec" /\ result.val[2].v # ZeroVec

\* C18: for a LineCurrent whose waveform has has_initial_fields False, each
\* of phiInitial, eInitial, jInitial and bInitial returns the Zero sentinel
\* under EB and under HJ, without raising and without a solve or a
\* factorization (each such query leaves the solver-call count as it was, so
\* it remains 0 across any sequence of them).
C18_LineCurrentNoInitialFields ==
    [][(/\ source.kind = "LineCurrent"
        /\ source.waveform.has_initial_fields = FALSE
        /\ call = NoCall
        /\ call'.name \in {"phiInitial", "eInitial", "jInitial", "bInitial"})
       => /\ result' = [exc |-> NoExc, val |-> Zero]
          /\ solverCalls' = solverCalls]_vars

GalvanicDerivQueries ==
    {"eInitialDeriv", "jInitialDeriv", "_phiInitialDeriv", "_aInitialDeriv",
     "bInitialDeriv", "hInitialDeriv"}

\* the derivative the call in progress is about, applied to u with the given
\* adjoint flag
GalvanicDeriv(u, adjoint) ==
    CASE call.name = "eInitialDeriv" ->
            LineCurrent_eInitialDeriv(source, simulation, St, u, adjoint, call.f)
      [] call.name = "jInitialDeriv" ->
            LineCurrent_jInitialDeriv(source, simulation, St, u, adjoint)
      [] call.name = "_phiInitialDeriv" ->
            LineCurrent_phiInitialDeriv(source, simulation, St, u, adjoint)
      [] call.name = "_aInitialDeriv" ->
            LineCurrent_aInitialDeriv(source, simulation, St, u, adjoint)
      [] call.name = "bInitialDeriv" ->
            LineCurrent_bInitialDeriv(source, simulation, St, u, adjoint)
      [] OTHER ->
            LineCurrent_hInitialDeriv(source, simulation, St, u, adjoint)

\* C19: for each of eInitialDeriv, jInitialDeriv, _phiInitialDeriv,
\* _aInitialDeriv, bInitialDeriv and hInitialDeriv of a galvanic source, the
\* forward result J.v and the adjoint result J^T.u satisfy
\* <u, J.v> = <J^T.u, v>: whatever the call returned for its seed and flag,
\* its inner product with every vector u equals the inner product of the
\* seed with what the opposite flag returns for u.
C19_AdjointConsistency ==
    /\ IsGalvanic(source)
    /\ call.name \in GalvanicDerivQueries
    /\ result.exc = NoExc
    => \A u \in Seeds :
          FDot(u, result.val) = FDot(GalvanicDeriv(u, ~call.adjoint).val, call.v)

C19_Witness ==
    /\ IsGalvanic(source)
    /\ call.name = "bInitialDeriv"
    /\ call.adjoint = TRUE
    /\ result.exc = NoExc
    /\ result.val.k = "vec"
    /\ \E u \in Seeds :
          /\ FDot(u, result.val) # Amp0
          /\ FDot(u, result.val) = FDot(GalvanicDeriv(u, FALSE).val, call.v)

\* the discretized injection vector of a galvanic source: the wire
\* integrated along the mesh edges under EB, the wire through the mesh faces
\* (normalized by area) under HJ, or under HJ the vector a RawVec_Grounded was
\* constructed with
GalvanicInjection ==
    IF simulation.formulation = "EB"
    THEN segmented_line_current_source_term(Mesh(simulation.mesh), source.location)
    ELSE IF source.s_e # PyNoneField THEN source.s_e
    ELSE line_through_faces(Mesh(simulation.mesh), source.location)

C20_WitnessZero ==
    /\ IsGalvanic(source) /\ call.name = "s_e"
    /\ simulation.formulation = "HJ"
    /\ call.time > 0
    /\ waveform_eval(source.waveform, call.time) = Amp0
    /\ GalvanicInjection.v # ZeroVec
    /\ result.val = Vec(ZeroVec, 1)

\* A lazily built attribute, once there, is the one later queries use
CachesKept ==
    /\ cache._dipole # NoObj => cache'._dipole = cache._dipole
    /\ cache._loop # NoObj => cache'._loop = cache._loop
    /\ cache._Mejs # PyNoneField => cache'._Mejs = cache._Mejs
    /\ cache._Mfjs # PyNoneField => cache'._Mfjs = cache._Mfjs
    /\ cache._hp # PyNoneField => cache'._hp = cache._hp

\* C21: within one source and one simulation, each lazily built quantity
\* (the vector-potential object, the injection vector, the magnetostatic and
\* the Ammr factorization) is computed at most once over any sequence of
\* queries: what is built stays as it is, and once the source has obtained
\* its factorization no later query requests another from simulation.solver.
C21_BuiltAtMostOnce ==
    [][/\ CachesKept
       /\ solverCalls >= 1 => solverCalls' = solverCalls]_vars

\* C22: a RawVec_Grounded constructed with a vector s_e uses it as its
\* injection under either formulation: s_e(simulation, time) is that vector
\* times the current times waveform.eval(time), and the wire path is never
\* discretized.
C22_RawVecUsesGivenVector ==
    source.kind = "RawVec_Grounded" /\ source.s_e # PyNoneField =>
        /\ cache._Mejs = PyNoneField
        /\ cache._Mfjs = source.s_e
        /\ call.name = "s_e" =>
              result = [exc |-> NoExc,
                        val |-> FAmp(FScale(source.current, 1, source.s_e),
                                     waveform_eval(source.waveform, call.time))]

\* the primary field h_primary = MfMuip (curl a) of an inductive source and
\* the field corrected for the simulation's permeability:
\* MfMuiI (h_primary + Div^T phi), with (Div MfMuiI Div^T) phi =
\* -Div (MfMuiI - MfMuipI) h_primary
PrimaryH ==
    FMat(getFaceInnerProduct(Mesh(simulation.mesh), 1, source.mu, FALSE),
         SourceField)

MagnetostaticPhi ==
    FMat(OpInv(OpMul(Mesh(simulation.mesh).faceDiv,
                     OpMul(MfMuiI(simulation), OpT(Mesh(simulation.mesh).faceDiv)))),
         FMat(OpNeg(Mesh(simulation.mesh).faceDiv),
              FMat(OpSub(MfMuiI(simulation),
                         getFaceInnerProduct(Mesh(simulation.mesh), 1, source.mu, TRUE)),
                   PrimaryH)))

CorrectedField ==
    FMat(MfMuiI(simulation),
         FAdd(PrimaryH, FMat(OpT(Mesh(simulation.mesh).faceDiv), MagnetostaticPhi)))

RaisedAtTheCall ==
    /\ result.exc = "NotImplementedError"
    /\ handles = <<>>

\* C24: for a LineCurrent with has_initial_fields True, eInitial returns
\* under EB and raises NotImplementedError under HJ; jInitial, bInitial,
\* hInitial, jInitialDeriv, bInitialDeriv, hInitialDeriv and _getAmmr return
\* under HJ and raise NotImplementedError under EB; the raise comes before
\* any solve is started.
C24_OneFormulationEach ==
    source.kind = "LineCurrent" /\ source.waveform.has_initial_fields = TRUE =>
        /\ call.name = "eInitial" =>
              IF simulation.formulation = "EB"
              THEN result.exc = NoExc /\ result.val.k = "vec"
              ELSE RaisedAtTheCall
        /\ call.name \in {"jInitial", "bInitial", "hInitial", "jInitialDeriv",
                           "bInitialDeriv", "hInitialDeriv"} =>
              IF simulation.formulation = "HJ"
              THEN result.exc = NoExc /\ result.val.k = "vec"
              ELSE RaisedAtTheCall
        /\ call.name = "_getAmmr" =>
              IF simulation.formulation = "HJ"
              THEN result.exc = NoExc /\ result.val.d # 0
              ELSE RaisedAtTheCall

C24_Witness ==
    /\ source.kind = "LineCurrent" /\ source.waveform.has_initial_fields = TRUE
    /\ call.name = "eInitial"
    /\ simulation.formulation = "HJ"
    /\ RaisedAtTheCall

C24_WitnessEB ==
    /\ source.kind = "LineCurrent" /\ source.waveform.has_initial_fields = TRUE
    /\ call.name = "hInitialDeriv"
    /\ simulation.formulation = "EB"
    /\ RaisedAtTheCall

C24_WitnessReturns ==
    /\ source.kind = "LineCurrent" /\ source.waveform.has_initial_fields = TRUE
    /\ call.name = "hInitial"
    /\ simulation.formulation = "HJ"
    /\ result.exc = NoExc /\ result.val.v # ZeroVec
    /\ Len(handles) = 2

\* C25: every factorization handle a source obtains from simulation.solver
\* is used in the order factor, solve, release: it is never applied to a
\* right-hand side after clean() has been called on it, and each handle is
\* released once its solve is done.
C25_FactorSolveRelease ==
    /\ \A i, j \in DOMAIN handles :
          (/\ handles[i].op = "clean" /\ handles[j].op = "solve"
           /\ handles[i].h = handles[j].h)
          => j < i
    /\ \A j \in DOMAIN handles :
          handles[j].op = "solve" =>
              \E i \in DOMAIN handles :
                  /\ handles[i].op = "clean"
                  /\ handles[i].h = handles[j].h


(* ---------- queries under any formulation value and field type ---------- *)
\* a simulation whose _formulation / _fieldType is none of the values the
\* sources test for
AnyFormulations == {"EB", "HJ", "other"}
AnyFieldTypes == {"b", "e", "h", "j", "other"}

AnySimulations ==
    {Sim(formulation, fieldType, mesh, <<1, 1, 1>>) :
        formulation \in AnyFormulations, fieldType \in AnyFieldTypes,
        mesh \in MeshIds}

InitAny ==
    /\ cls = "none"
    /\ args = NoArgs
    /\ self = NewObject
    /\ exc = NoExc
    /\ time = 0
    /\ ret = NoRet
    /\ pc = "source"
    /\ source \in Sources
    /\ simulation \in AnySimulations
    /\ cache = RawVec_Grounded_init(source.s_e)
    /\ solverCalls = 0
    /\ call = NoCall
    /\ result = NoResult
    /\ handles = <<>>

Call_aSrc ==
    /\ Idle
    /\ IsInductive(source)
    /\ Query(CallOf("_aSrc"), MagDipole_aSrc(source, simulation, St))

Call_getRHSdc ==
    /\ Idle
    /\ IsGalvanic(source)
    /\ Query(CallOf("getRHSdc"), LineCurrent_getRHSdc(source, simulation, St))

NextAny ==
    \/ Call_s_e \/ Call_aSrc \/ Call_bSrc \/ Call_getRHSdc
    \/ Done

SpecAny == InitAny /\ [][NextAny]_vars

\* C26: whatever the simulation's formulation value and field type, the time
\* and the has_initial_fields flag, a finished s_e, _bSrc, _aSrc or getRHSdc
\* query on an inductive or galvanic source has returned a field value or the
\* Zero sentinel, or has raised NotImplementedError: it has not returned None
\* and has not failed with any other error.
C26_NoSilentFallThrough ==
    (/\ call.name \in {"s_e", "_bSrc", "_aSrc", "getRHSdc"}
     /\ IsInductive(source) \/ IsGalvanic(source))
    => \/ result.exc = NoExc /\ result.val # PyNoneField
       \/ result.exc = "NotImplementedError"


(* --------- one source queried against one simulation, then another ------ *)
Call_Mejs ==
    /\ Idle
    /\ IsGalvanic(source)
    /\ Query(CallOf("Mejs"), LineCurrent_Mejs(source, simulation, St))

Call_Mfjs ==
    /\ Idle
    /\ IsGalvanic(source)
    /\ Query(CallOf("Mfjs"), LineCurrent_Mfjs(source, simulation, St))

Call_rhs_magnetostatic ==
    /\ Idle
    /\ IsInductive(source)
    /\ Query(CallOf("_rhs_magnetostatic"),
             MagDipole_rhs_magnetostatic(source, simulation, St))

\* the same source object is handed to a simulation on a different mesh; the
\* source is not rebuilt, so it keeps its attributes
Rebind ==
    /\ pc = "source"
    /\ call = NoCall
    /\ \E B \in Simulations :
          /\ B.mesh # simulation.mesh
          /\ simulation' = B
    /\ UNCHANGED <<source, cache, solverCalls, call, result, handles>>
    /\ UNCHANGED wfVars

NextReuse ==
    \/ Call_Mejs \/ Call_Mfjs \/ Call_rhs_magnetostatic \/ Call_s_e
    \/ Rebind
    \/ Done

SpecReuse == InitSrc /\ [][NextReuse]_vars

\* what a query against sim computes for an attribute that is not there yet
FreshMejs(sim) == segmented_line_current_source_term(Mesh(sim.mesh), source.location)
FreshMfjs(sim) == line_through_faces(Mesh(sim.mesh), source.location)
FreshHp(sim) ==
    FMat(getFaceInnerProduct(Mesh(sim.mesh), 1, source.mu, FALSE),
         FMat(Mesh(sim.mesh).edgeCurl,
              MagDipole_aSrc(source, sim, [St EXCEPT !.cache = NoCache]).val))

PopulatedOnFirstUse ==
    /\ (cache._Mejs = PyNoneField /\ cache'._Mejs # PyNoneField)
       => cache'._Mejs = FreshMejs(simulation)
    /\ (cache._Mfjs = PyNoneField /\ cache'._Mfjs # PyNoneField)
       => cache'._Mfjs = FreshMfjs(simulation)
    /\ (cache._hp = PyNoneField /\ cache'._hp # PyNoneField)
       => cache'._hp = FreshHp(simulation)

AnsweredFromCache ==
    /\ (call = NoCall /\ call'.name = "Mejs" /\ cache._Mejs # PyNoneField)
       => result' = [exc |-> NoExc,
                     val |-> FScale(source.current, 1, cache._Mejs)]
    /\ (call = NoCall /\ call'.name = "Mfjs" /\ cache._Mfjs # PyNoneField)
       => result' = [exc |-> NoExc,
                     val |-> FScale(source.current, 1, cache._Mfjs)]
    /\ (/\ call = NoCall /\ call'.name = "_rhs_magnetostatic"
        /\ cache._hp # PyNoneField /\ simulation.formulation = "EB")
       => result' = [exc |-> NoExc,
                     val |-> FMat(OpNeg(Mesh(simulation.mesh).faceDiv),
                                  FMat(OpSub(MfMuiI(simulation), cache._MfMuipI),
                                       cache._hp))]

\* C27: a source's Mejs, Mfjs and _hp are built by the first query that needs
\* them, from the mesh of the simulation of that query, and nothing but
\* building the source anew removes them: when the same source is then
\* queried against a simulation on a different mesh, the attribute stays as
\* it is and the query answers with the vector built for the first mesh.
C27_StaleAcrossSimulations ==
    [][/\ CachesKept
       /\ PopulatedOnFirstUse
       /\ AnsweredFromCache]_vars

\* Mejs answered for a simulation whose mesh gives another edge vector
C27_Witness ==
    /\ call.name = "Mejs"
    /\ cache._Mejs # FreshMejs(simulation)
    /\ result = [exc |-> NoExc, val |-> FScale(source.current, 1, cache._Mejs)]

\* Mfjs of a LineCurrent answered for a simulation on another mesh
C27_WitnessMfjs ==
    /\ call.name = "Mfjs"
    /\ source.kind = "LineCurrent"
    /\ cache._Mfjs # FreshMfjs(simulation)
    /\ result = [exc |-> NoExc, val |-> FScale(source.current, 1, cache._Mfjs)]

\* the magnetostatic right-hand side answered from the _hp of another mesh
C27_WitnessHp ==
    /\ call.name = "_rhs_magnetostatic"
    /\ simulation.formulation = "EB"
    /\ cache._hp # PyNoneField
    /\ cache._hp # FreshHp(simulation)
    /\ result.exc = NoExc


(* ------------------- what the waveform setters keep --------------------- *)
\* C28: every waveform parameter setter stores the value it validated: a
\* constructor call with in-domain arguments returns, reading back off_time,
\* epsilon, peak_time, ramp_on_rate and waveform_function on the instance
\* gives the values the call supplied, and a later eval does not fail on a
\* parameter that was never assigned.
C28_SettersStoreWhatTheyValidate ==
    (Called /\ InDomain) =>
        /\ exc = NoExc
        /\ cls \in {"StepOffWaveform", "RampOffWaveform", "RawWaveform",
                    "VTEMWaveform"}
           => /\ GetAttr(self, "_off_time") = Value(args.off_time)
              /\ GetAttr(self, "_epsilon") = Value(PyFloat(EpsilonAsked))
        /\ cls = "VTEMWaveform"
           => /\ GetAttr(self, "_peak_time") = Value(args.peak_time)
              /\ GetAttr(self, "_ramp_on_rate") = Value(args.ramp_on_rate)
        /\ cls = "RawWaveform"
           => GetAttr(self, "_waveform_function") = Value(args.waveform_function)
        /\ Evaluated => ret.exc \notin {"AttributeError", "NameError"}

====
